---- MODULE Spec2Model ----
(***************************************************************************)
(* Model of nlbn_gui: the batch executor (commands.rs), the conversion     *)
(* orchestrator (converter_impl.rs) and the symbol-library mutator         *)
(* (nlbn/library.rs).                                                      *)
(*                                                                         *)
(* The library file is a sequence of lexemes.  Every lexeme stands for a   *)
(* fixed piece of the text the exporters produce; whitespace and           *)
(* parentheses that the regular expressions and the trim calls of          *)
(* library.rs look at are lexemes of their own, so that matching,          *)
(* trimming and replacing are computed on the text's structure.            *)
(***************************************************************************)
EXTENDS Integers, Sequences, FiniteSets, Bags, TLC


(* ------------------------ program constants ---------------------------- *)

\* Semaphore::new(4)
MaxConcurrent == 4

NoJob == 0

(* ----------------------------- text ------------------------------------ *)

\* one lexeme of a library file: t is its kind, n the component name it
\* quotes (a sequence of characters), p the part whose data it carries
Tok(t, n, p) == [t |-> t, n |-> n, p |-> p]

NL   == Tok("NL", <<>>, "")      \* "\n"
SP2  == Tok("SP2", <<>>, "")     \* two spaces
RP   == Tok("RP", <<>>, "")      \* ")"
HDR6 == Tok("HDR6", <<>>, "")    \* (kicad_symbol_lib\n  (version 20211014)\n  (generator nlbn)
HDR5 == Tok("HDR5", <<>>, "")    \* EESchema-LIBRARY Version 2.4\n#encoding utf-8
ENDDEF == Tok("ENDDEF", <<>>, "") \* ENDDEF

\* (symbol "<name>"
SYM(name) == Tok("SYM", name, "")
\* DEF <name>   (followed by the blank that starts the rest of the DEF line)
DEFLINE(name) == Tok("DEF", name, "")

IsSpace(tok) == tok.t \in {"NL", "SP2"}

\* characters the model's titles are made of
AlphaNumeric == {"A", "B", "0", "1"}

(* ---------------------- sanitize_component_name ------------------------ *)

MapChar(c) == IF c \in AlphaNumeric \/ c = "-" \/ c = "_" THEN c ELSE "_"

RECURSIVE TrimStartUnderscore(_)
TrimStartUnderscore(s) ==
    IF s # <<>> /\ Head(s) = "_" THEN TrimStartUnderscore(Tail(s)) ELSE s

RECURSIVE TrimEndUnderscore(_)
TrimEndUnderscore(s) ==
    IF s # <<>> /\ s[Len(s)] = "_"
    THEN TrimEndUnderscore(SubSeq(s, 1, Len(s) - 1)) ELSE s

sanitize_component_name(title) ==
    TrimEndUnderscore(TrimStartUnderscore([i \in 1..Len(title) |-> MapChar(title[i])]))

(* --------------------------- exporters --------------------------------- *)

\* name of the unit block nested in a v6 symbol: "<name>_0_1"
UnitName(name) == name \o <<"_", "0", "_", "1">>

\* the v6 block of a component: two-space indented (symbol "<name>" ...),
\* its properties, the nested unit (symbol "<name>_0_1" ...) and the
\* closing "  )\n"
export_v6(name, part) ==
    << SP2, SYM(name), NL,
       Tok("PROPS", <<>>, part),
       SP2, SP2, SYM(UnitName(name)), NL,
       Tok("GFX", <<>>, part),
       SP2, SP2, RP, NL,
       SP2, RP, NL >>

\* the v5 block of a component: DEF <name> ... DRAW ... ENDDRAW ENDDEF
export_v5(name, part) ==
    << DEFLINE(name), Tok("DEFBODY", <<>>, part), ENDDEF, NL >>

export(v5, name, part) == IF v5 THEN export_v5(name, part) ELSE export_v6(name, part)

(* ------------------------ library.rs helpers --------------------------- *)

\* component_data.contains("(symbol")
ContainsSymbol(data) == \E i \in 1..Len(data) : data[i].t = "SYM"

\* str::trim_end
RECURSIVE TrimEnd(_)
TrimEnd(s) ==
    IF s # <<>> /\ IsSpace(s[Len(s)]) THEN TrimEnd(SubSeq(s, 1, Len(s) - 1)) ELSE s

\* str::trim_end_matches(')')
RECURSIVE TrimEndParens(_)
TrimEndParens(s) ==
    IF s # <<>> /\ s[Len(s)] = RP THEN TrimEndParens(SubSeq(s, 1, Len(s) - 1)) ELSE s

\* Regex \(symbol\s+"<name>" : is_match
MatchV6(content, name) == \E i \in 1..Len(content) : content[i] = SYM(name)

\* Regex DEF\s+<name>\s+ : is_match
MatchV5(content, name) == \E i \in 1..Len(content) : content[i] = DEFLINE(name)

\* the text at k is "\n  )\n"
IsCloseV6(content, k) ==
    /\ k + 3 <= Len(content)
    /\ content[k] = NL /\ content[k + 1] = SP2
    /\ content[k + 2] = RP /\ content[k + 3] = NL

\* Regex (?s)\(symbol\s+"<name>"\s+.*?\n  \)\n : start positions that match
StartsV6(content, name) ==
    { i \in 1..Len(content) :
        /\ content[i] = SYM(name)
        /\ i + 1 <= Len(content) /\ IsSpace(content[i + 1])
        /\ \E k \in (i + 2)..Len(content) : IsCloseV6(content, k) }

Min(S) == CHOOSE x \in S : \A y \in S : x <= y

\* first position of "\n  )\n" after the name and its whitespace (lazy .*?)
CloseAfterV6(content, i) ==
    Min({ k \in (i + 2)..Len(content) : IsCloseV6(content, k) })

\* the text at k is "ENDDEF\n"
IsCloseV5(content, k) ==
    k + 1 <= Len(content) /\ content[k] = ENDDEF /\ content[k + 1] = NL

\* Regex (?s)DEF\s+<name>\s+.*?ENDDEF\n : start positions that match
StartsV5(content, name) ==
    { i \in 1..Len(content) :
        /\ content[i] = DEFLINE(name)
        /\ \E k \in (i + 1)..Len(content) : IsCloseV5(content, k) }

CloseAfterV5(content, i) ==
    Min({ k \in (i + 1)..Len(content) : IsCloseV5(content, k) })

\* Regex::replace: the leftmost match is replaced by new_data
ReplaceV6(content, name, new_data) ==
    LET i == Min(StartsV6(content, name))
        k == CloseAfterV6(content, i)
    IN SubSeq(content, 1, i - 1) \o new_data \o SubSeq(content, k + 4, Len(content))

ReplaceV5(content, name, new_data) ==
    LET i == Min(StartsV5(content, name))
        k == CloseAfterV5(content, i)
    IN SubSeq(content, 1, i - 1) \o new_data \o SubSeq(content, k + 2, Len(content))

\* a library file: absent, or present with its text
NoFile == [exists |-> FALSE, content |-> <<>>]
File(content) == [exists |-> TRUE, content |-> content]

\* LibraryManager::add_component_internal: the file it writes
add_component_internal(lib, component_data) ==
    LET start == IF lib.exists
                 THEN TrimEndParens(TrimEnd(lib.content))
                 ELSE IF ContainsSymbol(component_data) THEN <<HDR6>> ELSE <<HDR5>>
        closing == IF ContainsSymbol(component_data) THEN <<NL, RP>> ELSE <<>>
    IN File(start \o <<NL>> \o component_data \o closing \o <<NL>>)

\* LibraryManager::update_component_internal: ok and the file it leaves
update_component_internal(lib, component_name, new_data) ==
    IF StartsV6(lib.content, component_name) # {}
    THEN [ok |-> TRUE, lib |-> File(ReplaceV6(lib.content, component_name, new_data))]
    ELSE IF StartsV5(lib.content, component_name) # {}
    THEN [ok |-> TRUE, lib |-> File(ReplaceV5(lib.content, component_name, new_data))]
    ELSE [ok |-> FALSE, lib |-> lib]

\* LibraryManager::component_exists: the v6 pattern, then the v5 pattern
component_exists(lib, component_name) ==
    lib.exists /\ (MatchV6(lib.content, component_name) \/ MatchV5(lib.content, component_name))

\* the exists check of add_or_update_component (v6 pattern only)
ExistsCheck(lib, component_name) ==
    lib.exists /\ MatchV6(lib.content, component_name)

(* --------------------------- the catalogue ----------------------------- *)

\* part ids the batches are drawn from, and the title the API returns for
\* each: C1 and C3 are different parts whose titles sanitize to the same
\* name, C2 sanitizes to the name of the unit block of C1
Parts == {"C1", "C2", "C3"}

\* a part id the remote library does not know: get_component_data answers
\* ComponentNotFound for it
UnknownPart == "C0"

\* two more parts of the remote library: C4 comes with a 3D model, the
\* record of C5 has an empty symbol stream and an empty footprint stream
ModelParts == {"C4", "C5"}

Catalogue == Parts \cup ModelParts

Title(part) ==
    CASE part = "C1" -> <<"A">>
      [] part = "C2" -> <<"A", " ", "0", ".", "1">>
      [] part = "C3" -> <<"(", "A", ")">>
      [] part = "C4" -> <<"B">>
      [] part = "C5" -> <<"B", "-", "1">>

\* !component_data.data_str.is_empty()
HasSymbol(part) == part # "C5"

\* !component_data.package_detail.is_empty()
HasFootprint(part) == part # "C5"

\* component_data.model_3d is Some: the footprint stream has an outline3D SVGNODE
HasModel(part) == part = "C4"

NameOf(part) == sanitize_component_name(Title(part))

Names == { NameOf(p) : p \in Catalogue }

(* ------------------------------ state ---------------------------------- *)

VARIABLES
    lcsc_ids,    \* batch_convert's list of part ids
    opts,        \* batch_convert's ConversionOptions
    permits,     \* free permits of the semaphore
    completed,   \* the AtomicUsize counter
    lock,        \* holder of SYMBOL_WRITE_LOCK, or NoJob
    lib,         \* the symbol library file (nlbn.kicad_sym or nlbn.lib)
    footprints,  \* nlbn.pretty: component name -> part whose footprint the file holds ("" = no file)
    jobs,        \* per task: position, locals and result
    events,      \* per task: the conversion-progress notifications it has emitted, in order
    results,     \* the results collected by the join loop (a bag: join order is not fixed)
    batch,       \* batch_convert's return value, once returned
    poisoned,    \* SYMBOL_WRITE_LOCK is poisoned: a thread panicked while holding it
    shapes,      \* nlbn.3dshapes: component name -> the model files it holds ("wrl", "step")
    arg,         \* the input of a conversion function applied on its own
    ret          \* what that function returned

vars == <<lcsc_ids, opts, permits, completed, lock, lib, footprints,
          jobs, events, results, batch, poisoned, shapes, arg, ret>>

\* what batch_convert was called with
inputs == <<lcsc_ids, opts>>

\* a function applied on its own, outside a batch
call == <<arg, ret>>

\* no function is applied on its own
NoCall == [fn |-> "none"]

total == Len(lcsc_ids)

Jobs == 1..total

\* a ConversionResult: named = component_name is Some, skipped = the message
\* carries "Skipped: Symbol (already exists)", files = files_created (the
\* files are named by their kind: "symbol" is the library of the chosen
\* format, "footprint" <name>.kicad_mod, "wrl" and "step" the two models)
Result(id, success, named, skipped, files) ==
    [lcsc_id |-> id, success |-> success, named |-> named,
     skipped |-> skipped, files |-> files]

\* the result batch_convert builds in its Err(e) arm
Failed(id) == Result(id, FALSE, FALSE, FALSE, {})

\* a task the spawn loop has put in the JoinSet and that has not run yet (a
\* task still to be spawned behaves as one not yet polled, so the state
\* after the spawn loop stands for both); files and skipped are convert's
\* files_created and skipped_items, exists is add_or_update_component's
\* local, written what add_or_update_component returned ("" before the call,
\* "true" for Ok(true), "false" for Ok(false), "err" for Err); wrote is the
\* set of files the task has written to disk, erred says that a step of the
\* task returned a fetch, data or I/O error, panic why the task unwound
\* ("" = it did not)
NewJob == [pc |-> "spawned", current |-> 0, name |-> <<>>, exists |-> FALSE,
           written |-> "", files |-> {}, skipped |-> FALSE, res |-> Failed(""),
           wrote |-> {}, erred |-> FALSE, panic |-> ""]

\* the options of the batches of Parts: these parts have no 3D model, so
\* convert_3d changes nothing for them and is left at its default
AllOptions ==
    [kicad_v5 : BOOLEAN, overwrite : BOOLEAN,
     convert_symbol : BOOLEAN, convert_footprint : BOOLEAN, convert_3d : {TRUE}]

\* ConversionOptions::default
DefaultOptions ==
    [kicad_v5 |-> FALSE, overwrite |-> FALSE,
     convert_symbol |-> TRUE, convert_footprint |-> TRUE, convert_3d |-> TRUE]

RECURSIVE SeqsUpTo(_, _)
SeqsUpTo(S, n) ==
    IF n = 0 THEN {<<>>}
    ELSE LET shorter == SeqsUpTo(S, n - 1)
         IN shorter \cup { Append(s, x) : s \in { t \in shorter : Len(t) = n - 1 }, x \in S }

\* every batch of at most two catalogue parts, and one batch of three jobs:
\* two parts with the same component name and the part named as a unit block
SmallBatches == SeqsUpTo(Parts, 2)

TripleBatch == <<"C1", "C2", "C3">>

\* batches larger than the semaphore: one job more than there are permits,
\* all for part ids the remote library does not know
LargeBatches == { [i \in 1..(MaxConcurrent + 1) |-> UnknownPart] }

\* the state batch_convert is in after its spawn loop, for the given inputs
Start(ids, options) ==
    /\ lcsc_ids = ids
    /\ opts = options
    /\ permits = MaxConcurrent
    /\ completed = 0
    /\ lock = NoJob
    /\ lib = NoFile
    /\ footprints = [n \in Names |-> ""]
    /\ jobs = [j \in 1..Len(ids) |-> NewJob]
    /\ events = [j \in 1..Len(ids) |-> <<>>]
    /\ results = EmptyBag
    /\ batch = [returned |-> FALSE, total |-> 0, succeeded |-> 0, failed |-> 0]
    /\ poisoned = FALSE
    /\ shapes = [n \in Names |-> {}]

\* no function is being applied on its own
Idle == arg = NoCall /\ ret = NoCall

Init ==
    /\ Idle
    /\ \/ \E ids \in SmallBatches, o \in AllOptions : Start(ids, o)
       \/ \E o \in { DefaultOptions, [DefaultOptions EXCEPT !.overwrite = TRUE] } :
             Start(TripleBatch, o)

\* batches that need more permits than the semaphore has, and a batch of one
\* job that converts
InitBatch ==
    /\ Idle
    /\ \/ \E ids \in LargeBatches : Start(ids, DefaultOptions)
       \/ Start(<<"C1">>, DefaultOptions)

(* ----------------------------- batch_convert --------------------------- *)

\* the permit is dropped at once instead of being held in _permit
TakePermit_Dropped(p) == p

\* a permit leaves the semaphore
TakePermit(p) == p - 1

\* the task ends and keeps its permit
DropPermit_Kept(p) == p

\* _permit is dropped: the permit goes back to the semaphore
DropPermit(p) == p + 1

\* sem.acquire().await
Acquire(j) ==
    /\ jobs[j].pc = "spawned"
    /\ permits > 0
    /\ permits' = TakePermit(permits)
    /\ jobs' = [jobs EXCEPT ![j].pc = "acquired"]
    /\ UNCHANGED <<inputs, call, poisoned, shapes, completed, lock, lib, footprints,
                   events, results, batch>>

\* the value fetch_add returns is used as it is
CurrentOf_Previous(previous) == previous

\* let current = <value returned by fetch_add> + 1
CurrentOf(previous) == previous + 1

\* completed.fetch_add(1) + 1
FetchAdd(j) ==
    /\ jobs[j].pc = "acquired"
    /\ completed' = completed + 1
    /\ jobs' = [jobs EXCEPT ![j].pc = "counted", ![j].current = CurrentOf(completed)]
    /\ UNCHANGED <<inputs, call, poisoned, shapes, permits, lock, lib, footprints,
                   events, results, batch>>

ProgressUpdate(j, id, status) ==
    [current |-> jobs[j].current, total |-> total, lcsc_id |-> id, status |-> status]

\* handle.emit("conversion-progress", status "converting")
EmitConverting(j) ==
    /\ jobs[j].pc = "counted"
    /\ events' = [events EXCEPT ![j] = Append(@, ProgressUpdate(j, lcsc_ids[j], "converting"))]
    /\ jobs' = [jobs EXCEPT ![j].pc = "dirs"]
    /\ UNCHANGED <<inputs, call, poisoned, shapes, permits, completed, lock, lib,
                   footprints, results, batch>>

(* ------------------------ ComponentConverter::convert ------------------ *)

\* the footprint is converted first, the symbol after it
StepAfter_FootprintFirst(j, step) ==
    IF step = "fetch" /\ opts.convert_footprint /\ HasFootprint(lcsc_ids[j]) THEN "footprint"
    ELSE IF step \in {"fetch", "footprint"} /\ opts.convert_symbol
                                           /\ HasSymbol(lcsc_ids[j]) THEN "lock"
    ELSE IF step \in {"fetch", "footprint", "symbol"} /\ opts.convert_3d
                                                     /\ HasModel(lcsc_ids[j]) THEN "obj"
    ELSE "emit"

\* the step convert runs after `step`, by the enable flags and the streams
\* of the fetched record: symbol ("lock" is its first position), footprint,
\* 3D model ("obj" is its first position), then the result ("emit")
StepAfter(j, step) ==
    IF step = "fetch" /\ opts.convert_symbol /\ HasSymbol(lcsc_ids[j]) THEN "lock"
    ELSE IF step \in {"fetch", "symbol"} /\ opts.convert_footprint
                                        /\ HasFootprint(lcsc_ids[j]) THEN "footprint"
    ELSE IF step \in {"fetch", "symbol", "footprint"} /\ opts.convert_3d
                                                     /\ HasModel(lcsc_ids[j]) THEN "obj"
    ELSE "emit"

\* job j leaves `step` with the given locals: it goes on to the next step,
\* or returns Ok(ConversionResult) when no step is left
Proceed(j, step, files, skipped) ==
    LET next == StepAfter(j, step)
    IN [jobs[j] EXCEPT
          !.pc = next, !.files = files, !.skipped = skipped,
          !.written = IF step = "symbol" THEN (IF skipped THEN "false" ELSE "true") ELSE @,
          !.res = IF next = "emit"
                  THEN Result(lcsc_ids[j], TRUE, TRUE, skipped, files)
                  ELSE @]

\* convert returns Err(e): batch_convert builds the failed result
Fail(j) ==
    [jobs[j] EXCEPT !.pc = "emit", !.res = Failed(lcsc_ids[j]), !.erred = TRUE,
                    !.written = IF @ = "" /\ jobs[j].pc \in {"check", "write"} THEN "err" ELSE @]

\* library_manager.create_directories()?
create_directories(j) ==
    /\ jobs[j].pc = "dirs"
    /\ \/ jobs' = [jobs EXCEPT ![j].pc = "fetch"]
       \/ jobs' = [jobs EXCEPT ![j] = Fail(j)]
    /\ UNCHANGED <<inputs, call, poisoned, shapes, permits, completed, lock, lib,
                   footprints, events, results, batch>>

\* api.get_component_data(lcsc_id).await? and sanitize_component_name
get_component_data(j) ==
    /\ jobs[j].pc = "fetch"
    /\ \/ /\ lcsc_ids[j] \in Catalogue
          /\ jobs' = [jobs EXCEPT ![j] =
                     [Proceed(j, "fetch", {}, FALSE) EXCEPT !.name = NameOf(lcsc_ids[j])]]
       \/ /\ lcsc_ids[j] \notin Catalogue
          /\ jobs' = [jobs EXCEPT ![j] = Fail(j)]
       \/ /\ lcsc_ids[j] \in Catalogue
          /\ jobs' = [jobs EXCEPT ![j] = Fail(j)]
    /\ UNCHANGED <<inputs, call, poisoned, shapes, permits, completed, lock, lib,
                   footprints, events, results, batch>>

(* ------------------ LibraryManager::add_or_update_component ------------ *)

\* SYMBOL_WRITE_LOCK.lock()
LockFree == lock = NoJob

\* lock() returns the guard: the mutex is free and not poisoned
AcquireLock(j) ==
    /\ jobs[j].pc = "lock"
    /\ LockFree
    /\ ~poisoned
    /\ lock' = j
    /\ jobs' = [jobs EXCEPT ![j].pc = "check"]
    /\ UNCHANGED <<inputs, call, poisoned, shapes, permits, completed, lib, footprints,
                   events, results, batch>>

\* the exists check: lib_path.exists(), read_to_string, is_match; a failed
\* read returns Err and drops the lock
CheckExists(j) ==
    /\ jobs[j].pc = "check"
    /\ \/ /\ jobs' = [jobs EXCEPT ![j].pc = "write",
                                  ![j].exists = ExistsCheck(lib, jobs[j].name)]
          /\ UNCHANGED lock
       \/ /\ lib.exists
          /\ jobs' = [jobs EXCEPT ![j] = Fail(j)]
          /\ lock' = NoJob
    /\ UNCHANGED <<inputs, call, poisoned, shapes, permits, completed, lib, footprints,
                   events, results, batch>>

\* the block convert_symbol hands to add_or_update_component
SymbolData(j) == export(opts.kicad_v5, jobs[j].name, lcsc_ids[j])

\* the three branches of add_or_update_component after the check, then the
\* lock guard is dropped; convert records the library path or the skip
WriteLibrary(j) ==
    /\ jobs[j].pc = "write"
    /\ lock' = NoJob
    /\ IF jobs[j].exists /\ opts.overwrite
       THEN LET u == update_component_internal(lib, jobs[j].name, SymbolData(j))
            IN IF u.ok
               THEN /\ lib' = u.lib
                    /\ jobs' = [jobs EXCEPT ![j] =
                                  [Proceed(j, "symbol", jobs[j].files \cup {"symbol"}, FALSE)
                                     EXCEPT !.wrote = @ \cup {"symbol"}]]
               ELSE /\ lib' = lib
                    /\ jobs' = [jobs EXCEPT ![j] = Fail(j)]
       ELSE IF ~jobs[j].exists
       THEN /\ lib' = add_component_internal(lib, SymbolData(j))
            /\ jobs' = [jobs EXCEPT ![j] =
                          [Proceed(j, "symbol", jobs[j].files \cup {"symbol"}, FALSE)
                             EXCEPT !.wrote = @ \cup {"symbol"}]]
       ELSE /\ lib' = lib
            /\ jobs' = [jobs EXCEPT ![j] = Proceed(j, "symbol", jobs[j].files, TRUE)]
    /\ UNCHANGED <<inputs, call, poisoned, shapes, permits, completed, footprints,
                   events, results, batch>>

\* a read or write of the update or add branch fails: Err(KicadError::Io),
\* the file is left as it was and the lock guard is dropped
WriteLibraryFails(j) ==
    /\ jobs[j].pc = "write"
    /\ ~(jobs[j].exists /\ ~opts.overwrite)
    /\ lock' = NoJob
    /\ jobs' = [jobs EXCEPT ![j] = Fail(j)]
    /\ UNCHANGED <<inputs, call, poisoned, shapes, permits, completed, lib, footprints,
                   events, results, batch>>

\* convert_footprint: library_manager.write_footprint(component_name, data)?
write_footprint(j) ==
    /\ jobs[j].pc = "footprint"
    /\ \/ /\ footprints' = [footprints EXCEPT ![jobs[j].name] = lcsc_ids[j]]
          /\ jobs' = [jobs EXCEPT ![j] =
                        [Proceed(j, "footprint", jobs[j].files \cup {"footprint"}, jobs[j].skipped)
                           EXCEPT !.wrote = @ \cup {"footprint"}]]
       \/ /\ UNCHANGED footprints
          /\ jobs' = [jobs EXCEPT ![j] = Fail(j)]
    /\ UNCHANGED <<inputs, call, poisoned, shapes, permits, completed, lock, lib,
                   events, results, batch>>

(* ------------------- ComponentConverter::convert_3d_model -------------- *)

\* convert_3d_model returned Err(e): convert logs a warning and builds its
\* result with files_created as it was before the call; io says that the
\* error is an I/O error of writing a model file
ModelFails(j, io) ==
    [Proceed(j, "model", jobs[j].files, jobs[j].skipped) EXCEPT !.erred = @ \/ io]

\* self.api.download_3d_obj(uuid).await?
download_3d_obj(j) ==
    /\ jobs[j].pc = "obj"
    /\ \/ jobs' = [jobs EXCEPT ![j].pc = "wrl"]
       \/ jobs' = [jobs EXCEPT ![j] = ModelFails(j, FALSE)]
    /\ UNCHANGED <<inputs, call, poisoned, shapes, permits, completed, lock, lib,
                   footprints, events, results, batch>>

\* model_exporter.obj_to_wrl(&obj_data)? then
\* library_manager.write_wrl_model(component_name, &wrl_data)? and files.push
write_wrl_model(j) ==
    /\ jobs[j].pc = "wrl"
    /\ \/ /\ shapes' = [shapes EXCEPT ![jobs[j].name] = @ \cup {"wrl"}]
          /\ jobs' = [jobs EXCEPT ![j].pc = "step", ![j].wrote = @ \cup {"wrl"}]
       \/ /\ UNCHANGED shapes
          /\ jobs' = [jobs EXCEPT ![j] = ModelFails(j, FALSE)]
       \/ /\ UNCHANGED shapes
          /\ jobs' = [jobs EXCEPT ![j] = ModelFails(j, TRUE)]
    /\ UNCHANGED <<inputs, call, poisoned, permits, completed, lock, lib,
                   footprints, events, results, batch>>

\* match self.api.download_3d_step(uuid).await: Err is logged and
\* convert_3d_model returns Ok(files) with the .wrl alone
download_3d_step(j) ==
    /\ jobs[j].pc = "step"
    /\ \/ jobs' = [jobs EXCEPT ![j].pc = "stepw"]
       \/ jobs' = [jobs EXCEPT ![j] =
                     Proceed(j, "model", jobs[j].files \cup {"wrl"}, jobs[j].skipped)]
    /\ UNCHANGED <<inputs, call, poisoned, shapes, permits, completed, lock, lib,
                   footprints, events, results, batch>>

\* library_manager.write_step_model(component_name, &step_data)? and
\* files.push, then Ok(files)
write_step_model(j) ==
    /\ jobs[j].pc = "stepw"
    /\ \/ /\ shapes' = [shapes EXCEPT ![jobs[j].name] = @ \cup {"step"}]
          /\ jobs' = [jobs EXCEPT ![j] =
                        [Proceed(j, "model", jobs[j].files \cup {"wrl", "step"}, jobs[j].skipped)
                           EXCEPT !.wrote = @ \cup {"step"}]]
       \/ /\ UNCHANGED shapes
          /\ jobs' = [jobs EXCEPT ![j] = ModelFails(j, TRUE)]
    /\ UNCHANGED <<inputs, call, poisoned, permits, completed, lock, lib,
                   footprints, events, results, batch>>

(* --------------------------- a task that panics ------------------------ *)

\* the result the join loop builds for a task that panicked
Panicked == Result("unknown", FALSE, FALSE, FALSE, {})

\* the positions of a task between its first and its last statement: the
\* task's code (a slice or an unwrap of the decoders, the logger) can panic
\* and the runtime can abort it; where that happens is not fixed by the code
PanicPoints ==
    {"acquired", "counted", "dirs", "fetch", "lock", "check", "write",
     "footprint", "obj", "wrl", "step", "stepw", "emit", "return"}

\* the task unwinds: _permit is dropped, and so is the lock guard if the
\* task holds it; a MutexGuard dropped while panicking poisons the mutex
Unwind(j, why) ==
    /\ jobs' = [jobs EXCEPT ![j].pc = "panicked", ![j].panic = why]
    /\ permits' = DropPermit(permits)
    /\ lock' = IF lock = j THEN NoJob ELSE lock
    /\ poisoned' = (poisoned \/ lock = j)
    /\ UNCHANGED <<inputs, call, shapes, completed, lib, footprints,
                   events, results, batch>>

\* task j panics at the point it has reached
Panic(j) ==
    /\ jobs[j].pc \in PanicPoints
    /\ Unwind(j, "own")

\* SYMBOL_WRITE_LOCK.lock().unwrap() on a poisoned mutex: lock() returns
\* Err(PoisonError) and unwrap panics
LockPoisoned(j) ==
    /\ jobs[j].pc = "lock"
    /\ LockFree
    /\ poisoned
    /\ Unwind(j, "poisoned")

(* ------------------------ batch_convert, continued --------------------- *)

\* every finished job is reported as completed
TerminalStatus_AlwaysCompleted(result) == "completed"

\* let status = if result.success { "completed" } else { "failed" }
TerminalStatus(result) == IF result.success THEN "completed" ELSE "failed"

\* handle.emit("conversion-progress", status "completed" or "failed")
EmitTerminal(j) ==
    /\ jobs[j].pc = "emit"
    /\ events' = [events EXCEPT ![j] =
                    Append(@, ProgressUpdate(j, jobs[j].res.lcsc_id, TerminalStatus(jobs[j].res)))]
    /\ jobs' = [jobs EXCEPT ![j].pc = "return"]
    /\ UNCHANGED <<inputs, call, poisoned, shapes, permits, completed, lock, lib,
                   footprints, results, batch>>

\* the task returns its result; _permit is dropped
Return(j) ==
    /\ jobs[j].pc = "return"
    /\ permits' = DropPermit(permits)
    /\ jobs' = [jobs EXCEPT ![j].pc = "finished"]
    /\ UNCHANGED <<inputs, call, poisoned, shapes, completed, lock, lib, footprints,
                   events, results, batch>>

\* join_set.join_next().await yields Ok(result): results.push(result)
JoinNext(j) ==
    /\ jobs[j].pc = "finished"
    /\ results' = results (+) SetToBag({jobs[j].res})
    /\ jobs' = [jobs EXCEPT ![j].pc = "joined"]
    /\ UNCHANGED <<inputs, call, poisoned, shapes, permits, completed, lock, lib,
                   footprints, events, batch>>

\* join_set.join_next().await yields Err(e), the task panicked:
\* results.push of the synthetic failed result
JoinPanicked(j) ==
    /\ jobs[j].pc = "panicked"
    /\ results' = results (+) SetToBag({Panicked})
    /\ jobs' = [jobs EXCEPT ![j].pc = "joined"]
    /\ UNCHANGED <<inputs, call, poisoned, shapes, permits, completed, lock, lib,
                   footprints, events, batch>>

\* results.iter().filter(|r| r.success).count()
Succeeded(bag) ==
    LET ok == { r \in BagToSet(bag) : r.success }
        RECURSIVE Sum(_)
        Sum(S) == IF S = {} THEN 0
                  ELSE LET r == CHOOSE x \in S : TRUE
                       IN CopiesIn(r, bag) + Sum(S \ {r})
    IN Sum(ok)

\* every result is counted as failed
FailedCount_All(n, succeeded) == n

\* let failed = total - succeeded
FailedCount(n, succeeded) == n - succeeded

\* join_next yields None: batch_convert returns the BatchResult
BatchReturn ==
    /\ ~batch.returned
    /\ \A j \in Jobs : jobs[j].pc = "joined"
    /\ batch' = [returned |-> TRUE, total |-> total,
                 succeeded |-> Succeeded(results),
                 failed |-> FailedCount(total, Succeeded(results))]
    /\ UNCHANGED <<inputs, call, poisoned, shapes, permits, completed, lock, lib,
                   footprints, jobs, events, results>>

Next ==
    \/ \E j \in Jobs : Acquire(j)
    \/ \E j \in Jobs : FetchAdd(j)
    \/ \E j \in Jobs : EmitConverting(j)
    \/ \E j \in Jobs : create_directories(j)
    \/ \E j \in Jobs : get_component_data(j)
    \/ \E j \in Jobs : AcquireLock(j)
    \/ \E j \in Jobs : CheckExists(j)
    \/ \E j \in Jobs : WriteLibrary(j)
    \/ \E j \in Jobs : WriteLibraryFails(j)
    \/ \E j \in Jobs : write_footprint(j)
    \/ \E j \in Jobs : EmitTerminal(j)
    \/ \E j \in Jobs : Return(j)
    \/ \E j \in Jobs : JoinNext(j)
    \/ BatchReturn

Spec == Init /\ [][Next]_vars

\* the steps of batches whose parts have a 3D model
NextConvert ==
    \/ Next
    \/ \E j \in Jobs : download_3d_obj(j)
    \/ \E j \in Jobs : write_wrl_model(j)
    \/ \E j \in Jobs : download_3d_step(j)
    \/ \E j \in Jobs : write_step_model(j)

\* every setting of the options
ConvertOptions ==
    [kicad_v5 : BOOLEAN, overwrite : BOOLEAN,
     convert_symbol : BOOLEAN, convert_footprint : BOOLEAN, convert_3d : BOOLEAN]

\* one job for each part of the catalogue (convert_component does what the
\* job of such a batch does), and the batches of two jobs for the part with
\* a 3D model and a part that has none
ConvertBatches ==
    { <<p>> : p \in Catalogue \cup {UnknownPart} } \cup SeqsUpTo({"C3", "C4"}, 2)

InitConvert ==
    /\ Idle
    /\ \E ids \in ConvertBatches, o \in ConvertOptions : Start(ids, o)

SpecConvert == InitConvert /\ [][NextConvert]_vars

\* the steps of batches in which tasks panic
NextPanic ==
    \/ Next
    \/ \E j \in Jobs : Panic(j)
    \/ \E j \in Jobs : LockPoisoned(j)
    \/ \E j \in Jobs : JoinPanicked(j)

\* the empty batch and the batches of one and two parts, with the default
\* options and with overwrite
InitPanic ==
    /\ Idle
    /\ \E ids \in SmallBatches,
          o \in { DefaultOptions, [DefaultOptions EXCEPT !.overwrite = TRUE] } : Start(ids, o)

SpecPanic == InitPanic /\ [][NextPanic]_vars

SpecBatch == InitBatch /\ [][Next]_vars

\* the empty batch, the batches of one and two parts (jobs that meet at the
\* library lock) and the batch of one job more than there are permits
InitTerminate ==
    /\ Idle
    /\ \/ \E ids \in SmallBatches : Start(ids, DefaultOptions)
       \/ \E ids \in LargeBatches : Start(ids, DefaultOptions)

SpecTerminate == InitTerminate /\ [][Next]_vars

\* batches of at most two parts under the default options, with overwrite
\* and with the v5 format
InitFair ==
    /\ Idle
    /\ \E ids \in SmallBatches,
          o \in { DefaultOptions, [DefaultOptions EXCEPT !.overwrite = TRUE],
                  [DefaultOptions EXCEPT !.kicad_v5 = TRUE] } : Start(ids, o)

\* the runtime keeps polling tasks that can take a step, and every fetch and
\* file operation returns
FairSpec == InitFair /\ [][Next]_vars /\ WF_vars(Next)

(* ---------------------- the structure of a library --------------------- *)

\* parenthesis depth of a v6 text after its first i lexemes; the header opens
\* the kicad_symbol_lib wrapper, PROPS and GFX are balanced
RECURSIVE Depth(_, _)
Depth(content, i) ==
    IF i = 0 THEN 0
    ELSE Depth(content, i - 1)
         + (IF content[i].t \in {"HDR6", "SYM"} THEN 1 ELSE 0)
         - (IF content[i] = RP THEN 1 ELSE 0)

\* positions of the top-level (symbol "<name>" openings of a v6 text
TopLevel(content) ==
    { i \in 1..Len(content) : content[i].t = "SYM" /\ Depth(content, i - 1) = 1 }

\* the text from position i on is a whole exported block (less its indent)
WholeBlockAt(content, i) ==
    \E p \in Parts :
        LET block == Tail(export_v6(content[i].n, p))
        IN /\ i + Len(block) - 1 <= Len(content)
           /\ SubSeq(content, i, i + Len(block) - 1) = block

\* number of positions of s whose lexeme satisfies the test
Count(s, Test(_)) == Cardinality({ i \in 1..Len(s) : Test(s[i]) })

IsHeader(tok) == tok.t \in {"HDR6", "HDR5"}

\* a complete v6 library: one header first, the wrapper closed exactly once
\* by the last parenthesis, only whitespace after it, and between them
\* nothing but whole component blocks
CompleteV6(content) ==
    /\ content # <<>> /\ content[1] = HDR6
    /\ Count(content, IsHeader) = 1
    /\ Depth(content, Len(content)) = 0
    /\ \A i \in 1..Len(content) :
          /\ Depth(content, i) = 0 =>
                /\ content[i] = RP \/ IsSpace(content[i])
                /\ \A k \in (i + 1)..Len(content) : IsSpace(content[k])
          /\ i \in TopLevel(content) => WholeBlockAt(content, i)
          /\ content[i].t \in {"PROPS", "GFX"} => Depth(content, i) >= 2
          /\ content[i] = RP /\ Depth(content, i) = 1 =>
                \E b \in TopLevel(content) : i = b + Len(export_v6(<<>>, "C1")) - 3

\* positions of the DEF lines of a v5 text
DefLines(content) == { i \in 1..Len(content) : content[i].t = "DEF" }

\* a complete v5 library: one header first, then DEF ... ENDDEF blocks only
CompleteV5(content) ==
    /\ content # <<>> /\ content[1] = HDR5
    /\ Count(content, IsHeader) = 1
    /\ \A i \in 2..Len(content) :
          \/ IsSpace(content[i])
          \/ \E b \in DefLines(content), p \in Parts :
                /\ b <= i /\ i < b + Len(export_v5(content[b].n, p))
                /\ SubSeq(content, b, b + Len(export_v5(content[b].n, p)) - 1)
                      = export_v5(content[b].n, p)

Complete(l) == l.exists => CompleteV6(l.content) \/ CompleteV5(l.content)

\* number of top-level blocks (v6) or DEF blocks (v5) the library holds for a name
BlocksNamed(l, name) ==
    Cardinality({ i \in TopLevel(l.content) \cup DefLines(l.content) : l.content[i].n = name })

\* the library holds the named component
Holds(l, name) == BlocksNamed(l, name) > 0

\* the text holds `data` as one piece
ContainsBlock(content, data) ==
    \E i \in 1..Len(content) :
        i + Len(data) - 1 <= Len(content) /\ SubSeq(content, i, i + Len(data) - 1) = data

\* the i-th smallest element of a finite set of numbers
RECURSIVE Sorted(_)
Sorted(S) == IF S = {} THEN <<>> ELSE <<Min(S)>> \o Sorted(S \ {Min(S)})

\* the component blocks of a library in file order: name and part of each
BlockSeq(l) ==
    LET starts == Sorted(TopLevel(l.content) \cup DefLines(l.content))
        PartAt(i) == IF l.content[i].t = "SYM"
                     THEN (IF i + 2 <= Len(l.content) THEN l.content[i + 2].p ELSE "")
                     ELSE (IF i + 1 <= Len(l.content) THEN l.content[i + 1].p ELSE "")
    IN [k \in 1..Len(starts) |-> [name |-> l.content[starts[k]].n, part |-> PartAt(starts[k])]]

(* ------------------------------ claims --------------------------------- *)

\* job j has called add_or_update_component and got Ok(true) or Ok(false)
CalledOk(j) == jobs[j].written \in {"true", "false"}

\* job j takes the step of add_or_update_component that follows its exists
\* check, and the call returns Ok
WriteStep(j) ==
    jobs[j].pc = "write" /\ jobs'[j].pc # "write" /\ jobs'[j].written # "err"

\* C1: once all N jobs of a batch, with pairwise distinct component names,
\* have called add_or_update_component on the same v6 library, the file is
\* one complete kicad_symbol_lib wrapper holding exactly N top-level symbol
\* blocks, one per name.
C1_DistinctNamesAllStored ==
    ( /\ ~opts.kicad_v5
      /\ total > 0
      /\ \A j \in Jobs : CalledOk(j)
      /\ \A i, j \in Jobs : i # j => jobs[i].name # jobs[j].name )
    => /\ lib.exists /\ CompleteV6(lib.content)
       /\ Cardinality(TopLevel(lib.content)) = total
       /\ \A j \in Jobs : BlocksNamed(lib, jobs[j].name) = 1

\* job j is inside the critical section of add_or_update_component
InCritical(j) == jobs[j].pc \in {"check", "write"}

\* at most one job is inside the critical section, and it holds the lock
MutualExclusion ==
    /\ Cardinality({ j \in Jobs : InCritical(j) }) <= 1
    /\ \A j \in Jobs : InCritical(j) => lock = j

\* no step of another job changes the library between a job's exists check
\* and its write
NoInterference ==
    [][\A j \in Jobs : jobs[j].pc = "write" /\ jobs'[j].pc = "write" => lib' = lib]_vars

\* C2: the exists check and the write of add_or_update_component are one
\* critical section (at most one job inside), so two jobs that add the same
\* component name with overwrite=false never both append: exactly one of
\* them gets written=true and the file holds exactly one block of that name.
C2_CheckThenWriteAtomic ==
    /\ MutualExclusion
    /\ \A i, j \in Jobs :
          ( /\ i # j /\ ~opts.overwrite
            /\ CalledOk(i) /\ CalledOk(j)
            /\ jobs[i].name = jobs[j].name )
          => /\ (jobs[i].written = "true") # (jobs[j].written = "true")
             /\ BlocksNamed(lib, jobs[i].name) = 1

\* C3: writing, with overwrite=true, a block the library already holds under
\* the same name leaves the library file as it is.
C3_OverwriteIdempotent ==
    [][\A j \in Jobs :
          ( /\ WriteStep(j) /\ opts.overwrite
            /\ Holds(lib, jobs[j].name)
            /\ ContainsBlock(lib.content, SymbolData(j)) )
          => lib' = lib]_vars

\* C4: when the library already holds the named component and
\* overwrite=false, add_or_update_component returns written=false and
\* leaves the file unchanged.
C4_SkipLeavesFile ==
    [][\A j \in Jobs :
          ( WriteStep(j) /\ ~opts.overwrite /\ Holds(lib, jobs[j].name) )
          => lib' = lib /\ jobs'[j].written = "false"]_vars

\* C5: when the named component is absent, add_or_update_component returns
\* written=true and the file becomes a complete library: the header, the
\* blocks it held before, unchanged and in their order, then the new block,
\* and (v6) one closing parenthesis.
C5_AddAppends ==
    [][\A j \in Jobs :
          ( WriteStep(j) /\ ~Holds(lib, jobs[j].name) )
          => /\ jobs'[j].written = "true"
             /\ lib'.exists /\ Complete(lib')
             /\ BlockSeq(lib') =
                   Append(BlockSeq(lib), [name |-> jobs[j].name, part |-> lcsc_ids[j]])]_vars

\* C6: a v5 library holds at most one DEF block per component name, whatever
\* calls were made (a present name is skipped or replaced in place).
C6_V5OneBlockPerName ==
    opts.kicad_v5 => \A n \in Names : BlocksNamed(lib, n) <= 1

\* C7: whenever no job holds the library lock, the library file is absent or
\* a complete library.
C7_LibraryAlwaysComplete ==
    lock = NoJob => Complete(lib)

\* job j holds a permit and has not yet returned its result
InWork(j) == jobs[j].pc \notin {"spawned", "finished", "joined"}

\* C8: at every instant at most 4 jobs of a batch are in their work phase.
C8_AtMostFourInWork ==
    Cardinality({ j \in Jobs : InWork(j) }) <= 4

\* four jobs are in their work phase and a fifth waits for a permit
C8_Witness ==
    /\ Cardinality({ j \in Jobs : InWork(j) }) = 4
    /\ \E j \in Jobs : jobs[j].pc = "spawned"

\* job j has emitted its terminal notification
Reported(j) == jobs[j].pc \in {"return", "finished", "joined"}

\* the notifications of job j so far: converting first, then one of
\* completed and failed, completed exactly for a successful result, and the
\* terminal one only once the job has its result
ProgressInOrder(j) ==
    LET e == events[j]
    IN /\ Len(e) <= 2
       /\ Len(e) >= 1 => e[1].status = "converting"
       /\ Len(e) = 2 => /\ e[2].status \in {"completed", "failed"}
                        /\ e[2].status = "completed" <=> jobs[j].res.success
       /\ Len(e) = 0 <=> jobs[j].pc \in {"spawned", "acquired", "counted"}
       /\ Len(e) = 2 <=> Reported(j)

\* job indices of the largest batch
JobIds == 1..(MaxConcurrent + 1)

Counted(j) == jobs[j].pc \notin {"spawned", "acquired"}

\* C10: the current values of the jobs of a batch are pairwise distinct and
\* lie in 1..total, they are exactly 1..total once every job has taken its
\* value, and all notifications of one job carry that job's current and the
\* batch's total.
C10_CurrentFromCounter ==
    /\ \A j \in Jobs : Counted(j) => jobs[j].current \in 1..total
    /\ \A i, j \in Jobs :
          Counted(i) /\ Counted(j) /\ i # j => jobs[i].current # jobs[j].current
    /\ (\A j \in Jobs : Counted(j)) => { jobs[j].current : j \in Jobs } = 1..total
    /\ \A j \in Jobs : \A k \in 1..Len(events[j]) :
          events[j][k].current = jobs[j].current /\ events[j][k].total = total

\* all five jobs of a batch have emitted both notifications, and the job
\* spawned first did not get the first value
C10_Witness ==
    /\ total = MaxConcurrent + 1
    /\ \A j \in Jobs : Len(events[j]) = 2
    /\ jobs[1].current = total

\* number of entries of a bag of results with the given success flag
NumberOf(bag, success) ==
    LET RECURSIVE Sum(_)
        Sum(S) == IF S = {} THEN 0
                  ELSE LET r == CHOOSE x \in S : TRUE
                       IN CopiesIn(r, bag) + Sum(S \ {r})
    IN Sum({ r \in BagToSet(bag) : r.success = success })

\* the entry job j contributes to the results: its own result, or the
\* synthetic one if it panicked
EntryOf(j) == IF jobs[j].panic # "" THEN Panicked ELSE jobs[j].res

\* the bag of the entries of the jobs in S
RECURSIVE Entries(_)
Entries(S) ==
    IF S = {} THEN EmptyBag
    ELSE LET j == CHOOSE x \in S : TRUE
         IN SetToBag({EntryOf(j)}) (+) Entries(S \ {j})

\* C11: the aggregate batch_convert returns has exactly one result per input
\* part id (total of them, in any order), succeeded is the number of results
\* with success=true, failed the number with success=false, and
\* succeeded + failed = total = the number of input ids.
C11_AggregateConsistent ==
    batch.returned =>
       /\ BagCardinality(results) = total
       /\ results = Entries(Jobs)
       /\ batch.total = Len(lcsc_ids)
       /\ batch.succeeded = NumberOf(results, TRUE)
       /\ batch.failed = NumberOf(results, FALSE)
       /\ batch.succeeded + batch.failed = batch.total

\* a batch of two jobs has returned: one job succeeded, the other panicked
C11_Witness ==
    /\ batch.returned /\ total = 2
    /\ batch.succeeded = 1 /\ batch.failed = 1
    /\ \E j \in Jobs : jobs[j].panic = "own"

\* C12: a job that panics or is aborted, at any point, the critical section
\* of the library included, is reported as exactly one failed result and
\* fails no sibling: no other job unwinds because of it (every job that
\* comes to the library lock still acquires it), and once the batch has
\* returned the synthetic failed results are exactly those of the jobs that
\* panicked themselves.
C12_PanicIsolated ==
    /\ \A j \in Jobs : jobs[j].panic # "poisoned"
    /\ batch.returned =>
          /\ CopiesIn(Panicked, results) = Cardinality({ j \in Jobs : jobs[j].panic = "own" })
          /\ \A j \in Jobs : jobs[j].panic = "" => BagIn(jobs[j].res, results)

\* the positions of a job inside the symbol step and inside the 3D step
SymbolSteps == {"lock", "check", "write"}

ModelSteps == {"obj", "wrl", "step", "stepw"}

\* the place of a position in the order of convert's steps
StepRank(pc) ==
    CASE pc \in {"spawned", "acquired", "counted"} -> 0
      [] pc = "dirs" -> 1
      [] pc = "fetch" -> 2
      [] pc \in SymbolSteps -> 3
      [] pc = "footprint" -> 4
      [] pc \in ModelSteps -> 5
      [] OTHER -> 6

\* the symbol step of job j is over: it is disabled or has no input, or
\* add_or_update_component has returned and the lock is released
SymbolDone(j) ==
    (opts.convert_symbol /\ HasSymbol(lcsc_ids[j])) => (CalledOk(j) /\ lock # j)

\* the footprint step of job j is over: it is disabled or has no input, or
\* the .kicad_mod file is written
FootprintDone(j) ==
    (opts.convert_footprint /\ HasFootprint(lcsc_ids[j])) => "footprint" \in jobs[j].wrote

\* job j writes file f in this step
Writes(j, f) == f \notin jobs[j].wrote /\ f \in jobs'[j].wrote

\* C13: the steps of a job run in the order directories, fetch, symbol,
\* footprint, 3D model: the footprint is written only after the symbol step
\* is over, the model files only after the footprint step is over, the
\* library never after them, and a step that is disabled or has no input is
\* passed over without changing the order of the others.
C13_StepsInOrder ==
    /\ [](\A j \in Jobs :
            /\ jobs[j].pc = "footprint" => SymbolDone(j)
            /\ jobs[j].pc \in ModelSteps => SymbolDone(j) /\ FootprintDone(j)
            /\ jobs[j].pc \in SymbolSteps => jobs[j].wrote = {}
            /\ jobs[j].pc = "footprint" => jobs[j].wrote \subseteq {"symbol"})
    /\ [][\A j \in Jobs :
            /\ StepRank(jobs'[j].pc) >= StepRank(jobs[j].pc)
            /\ Writes(j, "symbol") => jobs[j].wrote = {}
            /\ Writes(j, "footprint") => SymbolDone(j) /\ jobs[j].wrote \subseteq {"symbol"}
            /\ Writes(j, "wrl") => SymbolDone(j) /\ FootprintDone(j)
            /\ Writes(j, "step") => "wrl" \in jobs[j].wrote]_vars

\* a job has written the library, the footprint and both model files
C13_Witness ==
    \E j \in Jobs :
        /\ jobs[j].pc = "emit"
        /\ jobs[j].wrote = {"symbol", "footprint", "wrl", "step"}

\* C14: when the library already holds the symbol and overwrite=false, the
\* job does not fail: the skip is noted in the message, the library path is
\* not put in files_created, convert goes on with the footprint and 3D steps
\* as after a write, and a result built right after the skip has
\* success=true.
C14_SkipIsSuccess ==
    [][\A j \in Jobs :
          ( WriteStep(j) /\ ~opts.overwrite /\ Holds(lib, jobs[j].name) )
          => /\ jobs'[j].skipped /\ "symbol" \notin jobs'[j].files
             /\ ~jobs'[j].erred
             /\ jobs'[j].pc = StepAfter(j, "symbol")
             /\ jobs'[j].pc = "emit" =>
                   /\ jobs'[j].res.success /\ jobs'[j].res.skipped
                   /\ "symbol" \notin jobs'[j].res.files]_vars

\* the message of a result, phrase by phrase: convert's "Successfully
\* converted ..." with its "Skipped: ..." line, batch_convert's "Conversion
\* failed: ..." and "Task panicked: ..."
message(result) ==
    IF result.success
    THEN <<"Successfully converted">> \o
         (IF result.skipped THEN <<"Skipped: Symbol (already exists)">> ELSE <<>>)
    ELSE IF result = Panicked THEN <<"Task panicked">>
    ELSE <<"Conversion failed">>

\* job j has its result
HasResult(j) == jobs[j].pc \in {"emit", "return", "finished", "joined"}

\* C15: a job in which the fetch of the record failed, the record was
\* invalid or a file could not be written ends with a result for its part id
\* that has success=false and a non-empty message; the batch still returns
\* every job's result, and the step in which a job fails changes neither
\* another job nor the files.
C15_ErrorsBecomeFailedResults ==
    /\ [](\A j \in Jobs :
            (jobs[j].erred /\ HasResult(j))
            => /\ ~jobs[j].res.success
               /\ message(jobs[j].res) # <<>>
               /\ jobs[j].res.lcsc_id = lcsc_ids[j])
    /\ [](batch.returned => \A j \in Jobs : BagIn(jobs[j].res, results))
    /\ [][\A j \in Jobs :
            (~jobs[j].erred /\ jobs'[j].erred)
            => /\ \A i \in Jobs \ {j} : jobs'[i] = jobs[i]
               /\ lib' = lib /\ footprints' = footprints /\ shapes' = shapes]_vars

\* the items the message of a result names as skipped or omitted
SkippedItems(result) ==
    IF result.success /\ result.skipped THEN {"Symbol (already exists)"} ELSE {}

\* the items by which a message would name an omitted 3D artifact
ModelItems == {"3D model", "VRML model", "STEP model"}

\* the message of the result names an omitted 3D artifact
NotesModel(result) == SkippedItems(result) \cap ModelItems # {}

\* C16: a part without 3D model, a failed OBJ download and a failed STEP
\* download do not fail the job: its result has success=true, after a failed
\* STEP download the .wrl is on disk and in files_created, and in each case
\* the message names the artifact that was left out.
C16_ModelFailuresRecoverable ==
    [][\A j \in Jobs :
          /\ (jobs[j].pc = "obj" /\ jobs'[j].pc = "emit")
             => jobs'[j].res.success /\ NotesModel(jobs'[j].res)
          /\ (jobs[j].pc = "step" /\ jobs'[j].pc = "emit")
             => /\ jobs'[j].res.success /\ NotesModel(jobs'[j].res)
                /\ "wrl" \in jobs'[j].res.files /\ "wrl" \in shapes'[jobs[j].name]
          /\ ( /\ jobs[j].pc \in {"fetch", "write", "footprint"} /\ jobs'[j].pc = "emit"
               /\ ~jobs'[j].erred /\ jobs'[j].written # "err"
               /\ opts.convert_3d /\ ~HasModel(lcsc_ids[j]) )
             => jobs'[j].res.success /\ NotesModel(jobs'[j].res)]_vars

\* C17: files_created of a job's result is exactly the set of files the job
\* wrote, on every path: every file written is listed, nothing else is, and
\* a failed result lists no file only if the job wrote none.
C17_FilesCreatedExact ==
    \A j \in Jobs : HasResult(j) => jobs[j].res.files = jobs[j].wrote

(* ------------- sanitize_component_name applied on its own -------------- *)

\* the characters of the titles sanitize_component_name is applied to:
\* alphanumeric ones, the two kept punctuation marks, and two others
TitleChars == {"A", "0", "-", "_", " ", "."}

MaxTitleLen == 4

Titles == SeqsUpTo(TitleChars, MaxTitleLen)

\* no batch is running
NoBatch == Start(<<>>, DefaultOptions)

InitSanitize ==
    /\ NoBatch
    /\ \E t \in Titles : arg = [fn |-> "sanitize", title |-> t]
    /\ ret = NoCall

\* let component_name = sanitize_component_name(&component_data.title)
Sanitize ==
    /\ arg.fn = "sanitize"
    /\ ret = NoCall
    /\ ret' = [fn |-> "sanitize", name |-> sanitize_component_name(arg.title)]
    /\ UNCHANGED <<arg, inputs, permits, completed, lock, lib, footprints,
                   jobs, events, results, batch, poisoned, shapes>>

NextSanitize == Sanitize

SpecSanitize == InitSanitize /\ [][NextSanitize]_vars

Kept(c) == c \in AlphaNumeric \/ c = "-" \/ c = "_"

\* the title with every maximal run of characters that are not kept
\* replaced by a single "_"
RECURSIVE RunsReplaced(_)
RunsReplaced(s) ==
    IF s = <<>> THEN <<>>
    ELSE IF Kept(Head(s)) THEN <<Head(s)>> \o RunsReplaced(Tail(s))
    ELSE IF Len(s) > 1 /\ ~Kept(s[2]) THEN RunsReplaced(Tail(s))
    ELSE <<"_">> \o RunsReplaced(Tail(s))

\* C18: for every title the sanitized name is the title with each
\* alphanumeric character, "-" and "_" kept in order and every maximal run
\* of other characters replaced by a single "_", without the "_" at its two
\* ends: it neither starts nor ends with "_".
C18_SanitizeCollapsesRuns ==
    ret # NoCall /\ ret.fn = "sanitize" =>
       /\ ret.name = TrimEndUnderscore(TrimStartUnderscore(RunsReplaced(arg.title)))
       /\ ret.name # <<>> => Head(ret.name) # "_" /\ ret.name[Len(ret.name)] # "_"

(* ------------------ a PAD shape decoded and emitted -------------------- *)

\* one "~"-separated field of a PAD shape: not there (the shape has fewer
\* fields), text that does not parse as a number, or a number
Absent == [kind |-> "absent", val |-> 0]

NotANumber == [kind |-> "text", val |-> 0]

Number(n) == [kind |-> "num", val |-> n]

\* Option<f64>: None is <<>>, Some(v) is <<v>>
None == <<>>

Some(v) == <<v>>

\* fields[9] and fields[13] of the shapes the decoder is applied to
RadiusFields == {Absent, NotANumber} \cup { Number(n) : n \in {-1, 0, 1, 2, 3} }

LengthFields == {Absent, NotANumber} \cup { Number(n) : n \in {0, 2, 5} }

\* fields[6]: the layer ids the pad layer tables tell apart, and one other
PadLayerIds == {1, 2, 3, 11, 13, 15, 12}

PadFields == [layer_id : PadLayerIds, hole_radius : RadiusFields, hole_length : LengthFields]

\* if fields.len() > i { let val = fields[i].parse::<f64>().unwrap_or(0.0);
\*                       if val > 0.0 { Some(val) } else { None } } else { None }
PositiveField(f) ==
    IF f.kind = "absent" THEN None
    ELSE LET val == IF f.kind = "num" THEN f.val ELSE 0
         IN IF val > 0 THEN Some(val) ELSE None

parse_pad(fields) ==
    [layer_id    |-> fields.layer_id,
     hole_radius |-> PositiveField(fields.hole_radius),
     hole_length |-> PositiveField(fields.hole_length)]

\* the closure convert_ee_footprint_to_ki maps over ee_footprint.pads
convert_ee_footprint_to_ki(ee_pad) ==
    [pad_type |-> IF ee_pad.hole_radius # None THEN "ThroughHole" ELSE "Smd",
     drill    |-> IF ee_pad.hole_radius = None THEN None
                  ELSE Some([diameter |-> ee_pad.hole_radius[1] * 2, width |-> None]),
     layers   |-> <<"F.Cu", "F.Paste", "F.Mask">>]

\* PadType::to_kicad
to_kicad(pad_type) ==
    CASE pad_type = "Smd" -> "smd"
      [] pad_type = "ThroughHole" -> "thru_hole"
      [] pad_type = "NpThroughHole" -> "np_thru_hole"
      [] pad_type = "Connect" -> "connect"

\* 10.0 * px * 0.0254, in thousandths of a millimetre
px_to_mm(px) == 254 * px

\* the (pad ...) line: its type word, its (layers ...) list and its drill
\* clause (none, "(drill d)" or "(drill oval d1 d2)")
format_pad(pad) ==
    [type   |-> to_kicad(pad.pad_type),
     layers |-> pad.layers,
     drill  |-> IF pad.drill = None THEN [kind |-> "none", d1 |-> 0, d2 |-> 0]
                ELSE LET drill == pad.drill[1]
                         drill_dia == px_to_mm(drill.diameter)
                     IN IF drill.width # None
                        THEN [kind |-> "oval", d1 |-> drill_dia, d2 |-> px_to_mm(drill.width[1])]
                        ELSE [kind |-> "round", d1 |-> drill_dia, d2 |-> 0]]

map_pad_layers_smd(layer_id) ==
    CASE layer_id = 1 -> <<"F.Cu", "F.Paste", "F.Mask">>
      [] layer_id = 2 -> <<"B.Cu", "B.Paste", "B.Mask">>
      [] layer_id = 3 -> <<"F.SilkS">>
      [] layer_id = 11 -> <<"*.Cu", "*.Paste", "*.Mask">>
      [] layer_id = 13 -> <<"F.Fab">>
      [] layer_id = 15 -> <<"Dwgs.User">>
      [] OTHER -> <<"F.Cu", "F.Paste", "F.Mask">>

map_pad_layers_tht(layer_id) ==
    CASE layer_id = 1 -> <<"F.Cu", "F.Mask">>
      [] layer_id = 2 -> <<"B.Cu", "B.Mask">>
      [] layer_id = 3 -> <<"F.SilkS">>
      [] layer_id = 11 -> <<"*.Cu", "*.Mask">>
      [] layer_id = 13 -> <<"F.Fab">>
      [] layer_id = 15 -> <<"Dwgs.User">>
      [] OTHER -> <<"*.Cu", "*.Mask">>

InitPad ==
    /\ NoBatch
    /\ \E f \in PadFields : arg = [fn |-> "pad", fields |-> f]
    /\ ret = NoCall

PadFrame ==
    UNCHANGED <<arg, inputs, permits, completed, lock, lib, footprints,
                jobs, events, results, batch, poisoned, shapes>>

\* FootprintImporter::parse: "PAD" => parse_pad(&fields)
ParsePad ==
    /\ arg.fn = "pad"
    /\ ret = NoCall
    /\ ret' = [fn |-> "parse_pad", ee_pad |-> parse_pad(arg.fields)]
    /\ PadFrame

\* convert_footprint: convert_ee_footprint_to_ki(&ee_footprint, ...)
ConvertPad ==
    /\ ret.fn = "parse_pad"
    /\ ret' = [fn |-> "convert_ee_footprint_to_ki", ee_pad |-> ret.ee_pad,
               pad |-> convert_ee_footprint_to_ki(ret.ee_pad)]
    /\ PadFrame

\* FootprintExporter::export: format_pad(pad) for each pad
FormatPad ==
    /\ ret.fn = "convert_ee_footprint_to_ki"
    /\ ret' = [fn |-> "format_pad", ee_pad |-> ret.ee_pad, pad |-> ret.pad,
               text |-> format_pad(ret.pad)]
    /\ PadFrame

NextPad == ParsePad \/ ConvertPad \/ FormatPad

SpecPad == InitPad /\ [][NextPad]_vars

\* the pad has been emitted
Emitted == ret.fn = "format_pad"

\* C19: every pad decoded with a hole radius above 0 is emitted as
\* thru_hole on the layers *.Cu and *.Mask, without paste layer; every
\* other pad is emitted as smd, and on source layer 1 or 2 with the Cu,
\* Paste and Mask layers of that side (F.* for 1, B.* for 2).
C19_PadLayersFollowKindAndSide ==
    Emitted =>
       /\ ret.ee_pad.hole_radius # None
          => /\ ret.text.type = "thru_hole"
             /\ ret.text.layers = <<"*.Cu", "*.Mask">>
       /\ ret.ee_pad.hole_radius = None
          => /\ ret.text.type = "smd"
             /\ ret.ee_pad.layer_id \in {1, 2}
                => ret.text.layers = map_pad_layers_smd(ret.ee_pad.layer_id)

\* the number in a field, if it holds one above 0
IsPositive(f) == f.kind = "num" /\ f.val > 0

\* C20: a pad whose hole radius is above 0 and that has no hole length is
\* emitted with (drill d), d twice the radius; with a hole length above 0
\* it is emitted with (drill oval d1 d2); a pad whose hole radius is 0,
\* negative or absent is emitted as smd without drill.
C20_DrillEmission ==
    Emitted =>
       LET r == arg.fields.hole_radius
           l == arg.fields.hole_length
       IN /\ (IsPositive(r) /\ ~IsPositive(l))
             => ret.text.drill = [kind |-> "round", d1 |-> px_to_mm(2 * r.val), d2 |-> 0]
          /\ (IsPositive(r) /\ IsPositive(l))
             => ret.text.drill.kind = "oval"
          /\ ~IsPositive(r)
             => ret.text.drill.kind = "none" /\ ret.text.type = "smd"

(* ------------------- claims about the shared library ------------------- *)

\* the whole exported blocks of the named component that the text holds
BlocksOf(content, v5, name) ==
    { export(v5, name, p) : p \in { q \in Catalogue : ContainsBlock(content, export(v5, name, q)) } }

\* C28: add_or_update_component counts a component as present only when
\* the library holds a top-level block of exactly that name: the unit block
\* (symbol "A_0_1" nested in component A does not make a component named
\* A_0_1 present, and a call for one name leaves the whole blocks of every
\* other component in the file, neither replaced nor cut.
C28_OnlyOwnTopLevelBlock ==
    [][\A j \in Jobs :
          WriteStep(j) =>
             /\ jobs'[j].written = "false" => Holds(lib, jobs[j].name)
             /\ ~Holds(lib, jobs[j].name)
                => jobs'[j].written = "true" /\ BlocksNamed(lib', jobs[j].name) = 1
             /\ \A n \in Names \ {jobs[j].name} :
                   BlocksOf(lib.content, opts.kicad_v5, n)
                      \subseteq BlocksOf(lib'.content, opts.kicad_v5, n)]_vars

\* the parts whose symbol block the library keeps under the name
PartsKept(l, name) ==
    { BlockSeq(l)[k].part : k \in { m \in 1..Len(BlockSeq(l)) : BlockSeq(l)[m].name = name } }

\* C29: when two jobs of a batch have the same component name and
\* overwrite=false, then once both have finished with success the footprint
\* file of that name comes from the part whose symbol block the library
\* keeps, and the job whose symbol was skipped has not replaced the
\* footprint of the job whose symbol was written.
C29_SameNameArtifactsConsistent ==
    \A i, j \in Jobs :
       ( /\ i # j /\ jobs[i].name = jobs[j].name
         /\ ~opts.overwrite /\ opts.convert_symbol /\ opts.convert_footprint
         /\ HasResult(i) /\ jobs[i].res.success
         /\ HasResult(j) /\ jobs[j].res.success )
       => /\ footprints[jobs[i].name] \in PartsKept(lib, jobs[i].name)
          /\ (jobs[j].res.skipped /\ ~jobs[i].res.skipped)
             => footprints[jobs[i].name] = lcsc_ids[i]

(* ------------------------- claims about termination -------------------- *)

\* the positions of a task in the order it passes them
Positions ==
    << "spawned", "acquired", "counted", "dirs", "fetch", "lock", "check", "write",
       "footprint", "obj", "wrl", "step", "stepw", "emit", "return", "finished", "joined" >>

\* the place of each position in that order
PositionRank ==
    [p \in { Positions[k] : k \in 1..Len(Positions) } |->
        CHOOSE k \in 1..Len(Positions) : Positions[k] = p]

\* a step of the call: no task goes back, and a task goes forward or the
\* call returns, so that a call of n tasks takes at most
\* n * (Len(Positions) - 1) + 1 steps
Advance ==
    /\ \A j \in Jobs : PositionRank[jobs'[j].pc] >= PositionRank[jobs[j].pc]
    /\ \/ \E j \in Jobs : PositionRank[jobs'[j].pc] > PositionRank[jobs[j].pc]
       \/ ~batch.returned /\ batch'.returned

\* job j waits for a permit or for the library lock
Waiting(j) ==
    \/ jobs[j].pc = "spawned" /\ permits = 0
    \/ jobs[j].pc = "lock" /\ ~LockFree

\* job j can take its next step: it is neither collected nor waiting (every
\* other position has a step that is enabled whatever the other jobs do)
CanStep(j) == jobs[j].pc # "joined" /\ ~Waiting(j)

\* C30: batch_convert ends without deadlock, for every batch size: as long
\* as it has not returned some step can be taken; a job that waits for a
\* permit or for the lock waits for a job that holds it and can go on, every
\* permit and the lock being held by a running job only; every step brings
\* the call nearer to its return (so that it returns once every fetch and
\* file operation has), and it returns only when every job is collected.
C30_TerminatesWithoutDeadlock ==
    /\ []( /\ ~batch.returned => (\E j \in Jobs : CanStep(j)) \/ (\A j \in Jobs : jobs[j].pc = "joined")
           /\ permits + Cardinality({ j \in Jobs : InWork(j) }) = MaxConcurrent
           /\ lock # NoJob => lock \in Jobs /\ InCritical(lock)
           /\ \A j \in Jobs :
                 Waiting(j) => \E i \in Jobs \ {j} : InWork(i) /\ CanStep(i)
           /\ batch.returned => \A j \in Jobs : jobs[j].pc = "joined" )
    /\ [][Advance]_vars

\* a batch of one job more than there are permits has returned
C30_Witness ==
    batch.returned /\ total = MaxConcurrent + 1

(* --------------- Altium pins: the electrical type of a pin -------------- *)

\* str::contains and str::starts_with
StrContains(s, pat) ==
    \E i \in 1..(Len(s) - Len(pat) + 1) : SubSeq(s, i, i + Len(pat) - 1) = pat

starts_with(s, pat) == Len(s) >= Len(pat) /\ SubSeq(s, 1, Len(pat)) = pat

\* the lower-case letters of the pin names and their upper-case letters
UpperOf == ("a" :> "A") @@ ("b" :> "B") @@ ("c" :> "C") @@ ("d" :> "D") @@ ("e" :> "E") @@ ("g" :> "G") @@ ("i" :> "I") @@ ("n" :> "N") @@ ("o" :> "O") @@ ("p" :> "P") @@ ("r" :> "R") @@ ("s" :> "S") @@ ("t" :> "T") @@ ("u" :> "U") @@ ("v" :> "V") @@ ("w" :> "W")

\* str::to_uppercase
to_uppercase(s) ==
    [i \in 1..Len(s) |-> IF s[i] \in DOMAIN UpperOf THEN UpperOf[s[i]] ELSE s[i]]

\* Input is tested before Power
guess_pin_electrical_InputFirst(name) ==
    LET name_upper == to_uppercase(name)
    IN IF starts_with(name_upper, <<"I", "N">>) \/ StrContains(name_upper, <<"_", "I", "N">>)
       THEN "Input"
       ELSE IF \/ StrContains(name_upper, <<"V", "C", "C">>) \/ StrContains(name_upper, <<"V", "D", "D">>)
               \/ StrContains(name_upper, <<"V", "S", "S">>) \/ StrContains(name_upper, <<"G", "N", "D">>)
               \/ StrContains(name_upper, <<"V", "B", "A", "T">>) \/ StrContains(name_upper, <<"P", "O", "W", "E", "R">>)
       THEN "Power"
       ELSE IF starts_with(name_upper, <<"O", "U", "T">>) \/ StrContains(name_upper, <<"_", "O", "U", "T">>)
       THEN "Output"
       ELSE IF \/ StrContains(name_upper, <<"I", "O">>) \/ StrContains(name_upper, <<"G", "P", "I", "O">>)
               \/ starts_with(name_upper, <<"P">>)
       THEN "IO"
       ELSE "Passive"

\* AltiumConverter::guess_pin_electrical
guess_pin_electrical(name) ==
    LET name_upper == to_uppercase(name)
    IN IF \/ StrContains(name_upper, <<"V", "C", "C">>) \/ StrContains(name_upper, <<"V", "D", "D">>)
          \/ StrContains(name_upper, <<"V", "S", "S">>) \/ StrContains(name_upper, <<"G", "N", "D">>)
          \/ StrContains(name_upper, <<"V", "B", "A", "T">>) \/ StrContains(name_upper, <<"P", "O", "W", "E", "R">>)
       THEN "Power"
       ELSE IF starts_with(name_upper, <<"I", "N">>) \/ StrContains(name_upper, <<"_", "I", "N">>)
       THEN "Input"
       ELSE IF starts_with(name_upper, <<"O", "U", "T">>) \/ StrContains(name_upper, <<"_", "O", "U", "T">>)
       THEN "Output"
       ELSE IF \/ StrContains(name_upper, <<"I", "O">>) \/ StrContains(name_upper, <<"G", "P", "I", "O">>)
               \/ starts_with(name_upper, <<"P">>)
       THEN "IO"
       ELSE "Passive"

\* PinElectrical::to_altium_code
to_altium_code(electrical) ==
    CASE electrical = "Input" -> 0
      [] electrical = "IO" -> 1
      [] electrical = "Output" -> 2
      [] electrical = "OpenCollector" -> 3
      [] electrical = "Passive" -> 4
      [] electrical = "HiZ" -> 5
      [] electrical = "OpenEmitter" -> 6
      [] electrical = "Power" -> 7

\* pieces of pin names, in upper, lower and mixed case
NamePieces ==
    { <<"V", "C", "C">>,
      <<"v", "d", "d">>,
      <<"V", "s", "s">>,
      <<"g", "n", "d">>,
      <<"V", "B", "A", "T">>,
      <<"P", "o", "w", "e", "r">>,
      <<"I", "N">>,
      <<"i", "n">>,
      <<"_", "I", "N">>,
      <<"O", "U", "T">>,
      <<"_", "o", "u", "t">>,
      <<"I", "O">>,
      <<"G", "P", "I", "O">>,
      <<"P">>,
      <<"p">>,
      <<"A">>,
      <<"D">>,
      <<"1">>,
      <<"_">>,
      <<"X">> }

MaxPieces == 3

\* the concatenation of a sequence of pieces
RECURSIVE Concat(_)
Concat(ss) == IF ss = <<>> THEN <<>> ELSE Head(ss) \o Concat(Tail(ss))

\* the pin names the inference is applied to
PinNames == { Concat(ss) : ss \in SeqsUpTo(NamePieces, MaxPieces) }

InitAltium ==
    /\ NoBatch
    /\ \E n \in PinNames : arg = [fn |-> "altium_pin", name |-> n]
    /\ ret = NoCall

\* AltiumConverter::convert_pin: let electrical = self.guess_pin_electrical(&ee_pin.name)
ConvertPin ==
    /\ arg.fn = "altium_pin"
    /\ ret = NoCall
    /\ ret' = [fn |-> "convert_pin", electrical |-> guess_pin_electrical(arg.name)]
    /\ PadFrame

\* write_pins: |ELECTRICAL={pin.electrical.to_altium_code()}
WritePin ==
    /\ ret.fn = "convert_pin"
    /\ ret' = [fn |-> "write_pins", electrical |-> ret.electrical,
               ELECTRICAL |-> to_altium_code(ret.electrical)]
    /\ PadFrame

NextAltium == ConvertPin \/ WritePin

SpecAltium == InitAltium /\ [][NextAltium]_vars

\* the upper-case letters and their lower-case letters
LowerOf == [u \in { UpperOf[c] : c \in DOMAIN UpperOf } |-> CHOOSE c \in DOMAIN UpperOf : UpperOf[c] = u]

\* c is the character w of a rule, in upper or in lower case
SameLetter(c, w) == c = w \/ (w \in DOMAIN LowerOf /\ c = LowerOf[w])

\* the name holds the word, or starts with it, in whatever case
HoldsWord(name, word) ==
    \E i \in 1..(Len(name) - Len(word) + 1) :
        \A k \in 1..Len(word) : SameLetter(name[i + k - 1], word[k])

BeginsWithWord(name, word) ==
    /\ Len(name) >= Len(word)
    /\ \A k \in 1..Len(word) : SameLetter(name[k], word[k])

\* the first rule of the list that the name matches
RuleOf(name) ==
    CASE \E w \in {<<"V", "C", "C">>, <<"V", "D", "D">>, <<"V", "S", "S">>, <<"G", "N", "D">>, <<"V", "B", "A", "T">>, <<"P", "O", "W", "E", "R">>} :
            HoldsWord(name, w) -> "Power"
      [] BeginsWithWord(name, <<"I", "N">>) \/ HoldsWord(name, <<"_", "I", "N">>) -> "Input"
      [] BeginsWithWord(name, <<"O", "U", "T">>) \/ HoldsWord(name, <<"_", "O", "U", "T">>) -> "Output"
      [] \/ HoldsWord(name, <<"I", "O">>) \/ HoldsWord(name, <<"G", "P", "I", "O">>)
         \/ BeginsWithWord(name, <<"P">>) -> "IO"
      [] OTHER -> "Passive"

\* C21: the electrical type inferred from a pin name is that of the first
\* rule the name matches, letters compared without regard to case: Power
\* for VCC, VDD, VSS, GND, VBAT or POWER inside the name, Input for a name
\* that starts with IN or holds _IN, Output for one that starts with OUT or
\* holds _OUT, IO for one that holds IO or GPIO or starts with P, Passive
\* otherwise; a Power pin is written with ELECTRICAL=7.
C21_ElectricalFromPinName ==
    /\ ret # NoCall /\ ret.fn \in {"convert_pin", "write_pins"}
       => ret.electrical = RuleOf(arg.name)
    /\ ret # NoCall /\ ret.fn = "write_pins"
       => (ret.ELECTRICAL = 7 <=> RuleOf(arg.name) = "Power")

\* a lower-case name that matches the Power rule and the Input rule is
\* written as a Power pin
C21_Witness ==
    /\ arg.fn = "altium_pin" /\ arg.name = <<"P", "o", "w", "e", "r", "_", "I", "N">>
    /\ ret.fn = "write_pins" /\ ret.ELECTRICAL = 7

(* ----------------------------- parse_svg_path -------------------------- *)

\* the character classes of the three patterns: \s, [,\s], [-\d.], [01]
WsChars == {" "}

SepChars == {",", " "}

Digits == {"0", "1", "2", "3", "4", "5", "6"}

NumChars == Digits \cup {"-", "."}

FlagChars == {"0", "1"}

\* the first position from i on whose character is not of the class (a
\* greedy class+ or class* ends there: the classes that follow one another
\* in the patterns have no character in common)
RECURSIVE RunEnd(_, _, _)
RunEnd(s, i, class) ==
    IF i <= Len(s) /\ s[i] \in class THEN RunEnd(s, i + 1, class) ELSE i

NoMatch == [ok |-> FALSE, groups |-> <<>>, len |-> 0]

\* [-\d.]+ at position i followed by [,\s]+ , n times, then the rest of the
\* pattern: the groups captured and the position after them, 0 for no match
RECURSIVE NumbersThenSep(_, _, _)
NumbersThenSep(s, i, n) ==
    IF n = 0 THEN [end |-> i, groups |-> <<>>]
    ELSE LET b == RunEnd(s, i, NumChars)
             c == RunEnd(s, b, SepChars)
         IN IF b = i \/ c = b THEN [end |-> 0, groups |-> <<>>]
            ELSE LET rest == NumbersThenSep(s, c, n - 1)
                 IN IF rest.end = 0 THEN rest
                    ELSE [end |-> rest.end, groups |-> <<SubSeq(s, i, b - 1)>> \o rest.groups]

\* [01] at position i followed by [,\s]+ , n times
RECURSIVE FlagsThenSep(_, _, _)
FlagsThenSep(s, i, n) ==
    IF n = 0 THEN [end |-> i, groups |-> <<>>]
    ELSE IF i > Len(s) \/ s[i] \notin FlagChars THEN [end |-> 0, groups |-> <<>>]
    ELSE LET c == RunEnd(s, i + 1, SepChars)
         IN IF c = i + 1 THEN [end |-> 0, groups |-> <<>>]
            ELSE LET rest == FlagsThenSep(s, c, n - 1)
                 IN IF rest.end = 0 THEN rest
                    ELSE [end |-> rest.end, groups |-> <<SubSeq(s, i, i)>> \o rest.groups]

\* the match of M\s*([-\d.]+)[,\s]+([-\d.]+) (or of the L pattern) that
\* starts at position i
PairMatchAt(s, i, letter) ==
    IF i > Len(s) \/ s[i] # letter THEN NoMatch
    ELSE LET a == RunEnd(s, i + 1, WsChars)
             first == NumbersThenSep(s, a, 1)
         IN IF first.end = 0 THEN NoMatch
            ELSE LET e == RunEnd(s, first.end, NumChars)
                 IN IF e = first.end THEN NoMatch
                    ELSE [ok |-> TRUE,
                          groups |-> first.groups \o <<SubSeq(s, first.end, e - 1)>>,
                          len |-> e - i]

\* the match of the A pattern that starts at position i
ArcMatchAt(s, i) ==
    IF i > Len(s) \/ s[i] # "A" THEN NoMatch
    ELSE LET a == RunEnd(s, i + 1, WsChars)
             nums == NumbersThenSep(s, a, 3)
         IN IF nums.end = 0 THEN NoMatch
            ELSE LET flags == FlagsThenSep(s, nums.end, 2)
                 IN IF flags.end = 0 THEN NoMatch
                    ELSE LET x == NumbersThenSep(s, flags.end, 1)
                         IN IF x.end = 0 THEN NoMatch
                            ELSE LET e == RunEnd(s, x.end, NumChars)
                                 IN IF e = x.end THEN NoMatch
                                    ELSE [ok |-> TRUE,
                                          groups |-> nums.groups \o flags.groups \o x.groups
                                                     \o <<SubSeq(s, x.end, e - 1)>>,
                                          len |-> e - i]

MatchAt(s, i, letter) ==
    IF letter = "A" THEN ArcMatchAt(s, i) ELSE PairMatchAt(s, i, letter)

\* Regex::captures(remaining): the leftmost match in the text from pos on,
\* wherever it starts
captures(s, pos, letter) ==
    LET starts == { i \in pos..Len(s) : MatchAt(s, i, letter).ok }
    IN IF starts = {} THEN NoMatch ELSE MatchAt(s, Min(starts), letter)

\* str::parse::<f64> is Ok for a text of the class [-\d.]: an optional
\* minus sign, then digits with at most one point among them
ParsesAsF64(t) ==
    LET body == IF t # <<>> /\ Head(t) = "-" THEN Tail(t) ELSE t
    IN /\ \A k \in 1..Len(body) : body[k] # "-"
       /\ Cardinality({ k \in 1..Len(body) : body[k] = "." }) <= 1
       /\ \E k \in 1..Len(body) : body[k] \in Digits

\* the SvgCommand built from the groups of a match
SvgCommand(letter, groups) ==
    IF letter = "A"
    THEN [cmd |-> "Arc", x |-> groups[6], y |-> groups[7]]
    ELSE [cmd |-> IF letter = "M" THEN "MoveTo" ELSE "LineTo", x |-> groups[1], y |-> groups[2]]

\* the groups of a match that are parsed as f64
ParsedGroups(letter, groups) ==
    IF letter = "A" THEN {groups[1], groups[2], groups[3], groups[6], groups[7]}
    ELSE {groups[1], groups[2]}

ClosePath == [cmd |-> "ClosePath", x |-> <<>>, y |-> <<>>]

\* str::trim
RECURSIVE TrimWs(_)
TrimWs(s) ==
    IF s # <<>> /\ Head(s) \in WsChars THEN TrimWs(Tail(s))
    ELSE IF s # <<>> /\ s[Len(s)] \in WsChars THEN TrimWs(SubSeq(s, 1, Len(s) - 1))
    ELSE s

\* the bytes of a character that is not ASCII: a path is the sequence of
\* its bytes, and such a character takes a lead byte and a continuation byte
NonAsciiChar == <<"<C3>", "<A9>">>

ContinuationBytes == {"<A9>"}

\* path.chars().collect().len()
CharCount(path) == Cardinality({ k \in 1..Len(path) : path[k] \notin ContinuationBytes })

\* the locals of parse_svg_path before its loop (pos counts from 1)
SvgStart(path) ==
    [path |-> TrimWs(path), pos |-> 1, commands |-> <<>>, result |-> "running"]

\* if let Some(cap) = re.captures(remaining) { .. } else { pos += 1 }
SvgTake(st, c, cap) ==
    IF ~cap.ok THEN [st EXCEPT !.pos = @ + 1]
    ELSE IF \E g \in ParsedGroups(c, cap.groups) : ~ParsesAsF64(g)
    THEN [st EXCEPT !.result = "SvgParse", !.commands = <<>>]
    ELSE [st EXCEPT !.commands = Append(@, SvgCommand(c, cap.groups)),
                    !.pos = @ + cap.len]

\* one pass of the while loop, or the return after it; &path[pos..] panics
\* when the byte at pos is inside a character
SvgStep(st) ==
    IF st.pos > CharCount(st.path) THEN [st EXCEPT !.result = "Ok"]
    ELSE IF st.path[st.pos] \in ContinuationBytes
    THEN [st EXCEPT !.result = "panic", !.commands = <<>>]
    ELSE LET c == st.path[st.pos]
         IN IF c \in {"M", "L", "A"}
            THEN SvgTake(st, c, captures(st.path, st.pos, c))
            ELSE IF c \in {"Z", "z"}
            THEN [st EXCEPT !.commands = Append(@, ClosePath), !.pos = @ + 1]
            ELSE [st EXCEPT !.pos = @ + 1]

\* parse_svg_path(path): Ok(commands), Err(SvgParse) or a panic
RECURSIVE SvgRun(_)
SvgRun(st) == IF st.result # "running" THEN st ELSE SvgRun(SvgStep(st))

parse_svg_path(path) == SvgRun(SvgStart(path))

\* pieces of the paths the parser is applied to: whole commands, close
\* commands, a command letter without numbers, a character that is no
\* command, a blank, and a command whose number is no number
PathPieces ==
    { <<"M", "1", ",", "2">>,
      <<"L", "3", " ", "4">>,
      <<"A", "1", ",", "1", ",", "0", ",", "0", ",", "1", ",", "5", ",", "6">>,
      <<"Z">>,
      <<"z">>,
      <<"x">>,
      <<" ">>,
      <<"M">>,
      <<"L">>,
      <<"L", "-", ",", "1">>,
      <<"M", "0", ".", "5", ",", "-", "2">> }

MaxPathPieces == 3

Paths == { Concat(ss) : ss \in SeqsUpTo(PathPieces, MaxPathPieces) }

InitSvg ==
    /\ NoBatch
    /\ \E path \in Paths : arg = [fn |-> "parse_svg_path", path |-> path]
    /\ ret = NoCall

\* let path = path.trim(); let mut pos = 0; ...
SvgEnter ==
    /\ arg.fn = "parse_svg_path"
    /\ ret = NoCall
    /\ ret' = [fn |-> "parse_svg_path", st |-> SvgStart(arg.path)]
    /\ PadFrame

\* while pos < chars.len() { ... } Ok(commands)
SvgLoop ==
    /\ arg.fn = "parse_svg_path"
    /\ ret # NoCall /\ ret.st.result = "running"
    /\ ret' = [ret EXCEPT !.st = SvgStep(ret.st)]
    /\ PadFrame

NextSvg == SvgEnter \/ SvgLoop

SpecSvg == InitSvg /\ [][NextSvg]_vars

\* the commands of a path read from left to right: a command is valid when
\* its pattern matches where the command letter stands and its numbers are
\* numbers; everything else is skipped one character at a time
RECURSIVE ValidCommands(_, _)
ValidCommands(s, pos) ==
    IF pos > Len(s) THEN <<>>
    ELSE LET c == s[pos]
             m == IF c \in {"M", "L", "A"} THEN MatchAt(s, pos, c) ELSE NoMatch
         IN IF m.ok /\ \A g \in ParsedGroups(c, m.groups) : ParsesAsF64(g)
            THEN <<SvgCommand(c, m.groups)>> \o ValidCommands(s, pos + m.len)
            ELSE IF c \in {"Z", "z"} THEN <<ClosePath>> \o ValidCommands(s, pos + 1)
            ELSE ValidCommands(s, pos + 1)

\* parse_svg_path has returned
SvgReturned == arg.fn = "parse_svg_path" /\ ret # NoCall /\ ret.st.result # "running"

\* C22: parse_svg_path fails exactly when the path holds no valid command:
\* then, the empty path included, it returns the BadPath error; a path with
\* at least one valid M, L, A or Z command gives Ok with the valid commands
\* in the order of the path, what is malformed being skipped character by
\* character.
C22_FailsOnlyWithoutCommands ==
    SvgReturned =>
       LET valid == ValidCommands(TrimWs(arg.path), 1)
       IN IF valid = <<>> THEN ret.st.result = "BadPath"
          ELSE ret.st.result = "Ok" /\ ret.st.commands = valid

(* ---------------------- a PT record: parse_pt_path --------------------- *)

\* the end points of the commands that have one, in order
RECURSIVE EndPoints(_)
EndPoints(commands) ==
    IF commands = <<>> THEN <<>>
    ELSE IF Head(commands).cmd = "ClosePath" THEN EndPoints(Tail(commands))
    ELSE <<[x |-> Head(commands).x, y |-> Head(commands).y]>> \o EndPoints(Tail(commands))

HasClosePath(commands) == \E k \in 1..Len(commands) : commands[k].cmd = "ClosePath"

\* SymbolImporter::parse_pt_path after "let commands = parse_svg_path(svg_path)?"
PolygonOf(parsed) ==
    LET points == EndPoints(parsed.commands)
        has_close_path == HasClosePath(parsed.commands)
    IN IF parsed.result # "Ok"
       THEN [ok |-> FALSE, panic |-> parsed.result = "panic", points |-> <<>>, fill |-> FALSE]
       ELSE [ok |-> TRUE, panic |-> FALSE,
             points |-> IF has_close_path /\ points # <<>>
                        THEN Append(points, points[1]) ELSE points,
             fill |-> has_close_path]

\* SymbolImporter::parse_pt_path for a record with the path in fields[1]
parse_pt_path(svg_path) == PolygonOf(parse_svg_path(svg_path))

InitPt ==
    /\ NoBatch
    /\ \E path \in Paths : arg = [fn |-> "parse_pt_path", path |-> path]
    /\ ret = NoCall

\* "PT" => parse_pt_path(&fields)
ParsePt ==
    /\ arg.fn = "parse_pt_path"
    /\ ret = NoCall
    /\ ret' = [fn |-> "parse_pt_path", polygon |-> parse_pt_path(arg.path)]
    /\ PadFrame

NextPt == ParsePt

SpecPt == InitPt /\ [][NextPt]_vars

\* C24: the polygon decoded from a PT record has the end points of the M,
\* L and A commands of its path, in order; it is filled exactly when the
\* path holds a close command, and then the first point is appended once at
\* the end, so that the last point equals the first.
C24_PtPolygonClosedAndFilled ==
    ( arg.fn = "parse_pt_path" /\ ret # NoCall /\ ret.polygon.ok ) =>
       LET valid == ValidCommands(TrimWs(arg.path), 1)
           ends == EndPoints(valid)
       IN /\ ret.polygon.fill = HasClosePath(valid)
          /\ ret.polygon.points =
                IF HasClosePath(valid) /\ ends # <<>> THEN Append(ends, ends[1]) ELSE ends
          /\ (ret.polygon.fill /\ ret.polygon.points # <<>>)
             => ret.polygon.points[Len(ret.polygon.points)] = ret.polygon.points[1]

(* -------------- symbol shape records and their fill field -------------- *)

\* fields[i] of a record split at "~" (Rust counts from 0)
Field(fields, i) == fields[i + 1]

\* the texts of the fields that parse::<f64>() takes
NumberTexts == {"0", "1", "2.5"}

\* what a fill field holds
FillTexts == {"", "none", "NONE", "0", "1", "#FF0000"}

MaxFields == 12

\* index of the fill field of a record, by designator
FillIndex == [R |-> 10, C |-> 7, E |-> 8, PG |-> 7]

FillDesignators == {"R", "C", "E", "PG"}

\* a record of n fields: the designator, "1" in the other fields (for PG
\* the point list "0 0 1 1" in fields[1]) and the fill text in its field
FillRecord(designator, n, fill_text) ==
    [i \in 1..n |->
        IF i = 1 THEN designator
        ELSE IF i = FillIndex[designator] + 1 THEN fill_text
        ELSE IF i = 2 /\ designator = "PG" THEN "0 0 1 1"
        ELSE "1"]

FillRecords ==
    { FillRecord(dsg, n, t) : dsg \in FillDesignators, n \in 1..MaxFields, t \in FillTexts }

Invalid == [ok |-> FALSE, fill |-> FALSE]

\* SymbolImporter::parse_rectangle
parse_rectangle(fields) ==
    IF Len(fields) < 7 THEN Invalid
    ELSE IF \E i \in {1, 2, 5, 6} : Field(fields, i) \notin NumberTexts THEN Invalid
    ELSE [ok |-> TRUE,
          fill |-> Len(fields) > 10 /\ Field(fields, 10) # "" /\ Field(fields, 10) # "none"]

\* SymbolImporter::parse_circle
parse_circle(fields) ==
    IF Len(fields) < 4 THEN Invalid
    ELSE IF \E i \in {1, 2, 3} : Field(fields, i) \notin NumberTexts THEN Invalid
    ELSE [ok |-> TRUE,
          fill |-> Len(fields) > 7 /\ Field(fields, 7) # "" /\ Field(fields, 7) # "none"]

\* SymbolImporter::parse_ellipse
parse_ellipse(fields) ==
    IF Len(fields) < 5 THEN Invalid
    ELSE IF \E i \in {1, 2, 3, 4} : Field(fields, i) \notin NumberTexts THEN Invalid
    ELSE [ok |-> TRUE,
          fill |-> Len(fields) > 8 /\ Field(fields, 8) # "" /\ Field(fields, 8) # "none"]

\* SymbolImporter::parse_polygon (parse_points is Ok for "0 0 1 1")
parse_polygon(fields) ==
    IF Len(fields) < 2 THEN Invalid
    ELSE IF Field(fields, 1) # "0 0 1 1" THEN Invalid
    ELSE [ok |-> TRUE, fill |-> Len(fields) > 7 /\ Field(fields, 7) = "1"]

\* the arm of SymbolImporter::parse the designator selects
ParseShape(fields) ==
    CASE Field(fields, 0) = "R" -> parse_rectangle(fields)
      [] Field(fields, 0) = "C" -> parse_circle(fields)
      [] Field(fields, 0) = "E" -> parse_ellipse(fields)
      [] Field(fields, 0) = "PG" -> parse_polygon(fields)

InitFill ==
    /\ NoBatch
    /\ \E fields \in FillRecords : arg = [fn |-> "parse_shape", fields |-> fields]
    /\ ret = NoCall

\* match designator { "R" => parse_rectangle(&fields), ... }
ParseShapeRecord ==
    /\ arg.fn = "parse_shape"
    /\ ret = NoCall
    /\ ret' = [fn |-> "parse_shape", shape |-> ParseShape(arg.fields)]
    /\ PadFrame

NextFill == ParseShapeRecord

SpecFill == InitFill /\ [][NextFill]_vars

\* C25: for the R, C, E and PG records (fill field at index 10, 7, 8 and 7)
\* the decoded fill flag is false when the field is missing, empty or
\* "none", and true for every other text.
C25_FillUniform ==
    ( arg.fn = "parse_shape" /\ ret # NoCall /\ ret.shape.ok ) =>
       LET index == FillIndex[Field(arg.fields, 0)]
       IN ret.shape.fill =
             ( /\ Len(arg.fields) > index
               /\ Field(arg.fields, index) \notin {"", "none"} )

(* ------------------ pin rotation in the v6 symbol text ----------------- *)

\* the range of EePin.rotation and KiPin.rotation (i32)
I32Max == 2147483647

I32Min == (-I32Max) - 1

MaxRotation == 720

\* how far below I32Max the rotations that overflow "180 + rotation" are drawn
OverflowMargin == 200

\* what fields[6].parse::<i32>() can give (a part of it)
Rotations ==
    ((-MaxRotation)..MaxRotation) \cup { I32Max - k : k \in 0..OverflowMargin }

\* a % b of Rust on i32 for b > 0: the remainder has the sign of a
RustRem(a, b) ==
    IF a >= 0 \/ a % b = 0 THEN a % b ELSE (a % b) - b

\* 180 + rotation on i32: Overflow when the sum leaves the range
Add180(rotation) ==
    IF rotation > I32Max - 180
    THEN [overflow |-> TRUE, wrapped |-> I32Min + 179 + (rotation - I32Max)]
    ELSE [overflow |-> FALSE, wrapped |-> 180 + rotation]

\* the orientation SymbolExporter::format_pin_v6 writes; an overflowing sum
\* panics with overflow checks and wraps without them
format_pin_v6(rotation, overflow_checks) ==
    LET sum == Add180(rotation)
    IN IF sum.overflow /\ overflow_checks
       THEN [panic |-> TRUE, orientation |-> 0]
       ELSE [panic |-> FALSE, orientation |-> RustRem(sum.wrapped, 360)]

InitPin ==
    /\ NoBatch
    /\ \E r \in Rotations : arg = [fn |-> "format_pin_v6", rotation |-> r]
    /\ ret = NoCall

\* KiPin.rotation = EePin.rotation, then "(at x y orientation)"
FormatPin ==
    /\ arg.fn = "format_pin_v6"
    /\ ret = NoCall
    /\ \E overflow_checks \in BOOLEAN :
          ret' = [fn |-> "format_pin_v6", pin |-> format_pin_v6(arg.rotation, overflow_checks)]
    /\ PadFrame

NextPin == FormatPin

SpecPin == InitPin /\ [][NextPin]_vars

\* C26: for every i32 rotation r of a pin record, negative ones and those of
\* 360 and more included, the orientation written for KiCad v6 is
\* (180 + r) mod 360 in the mathematical sense, a value of 0..359.
C26_PinOrientationMod360 ==
    ( arg.fn = "format_pin_v6" /\ ret # NoCall ) =>
        /\ ~ret.pin.panic
        /\ ret.pin.orientation \in 0..359
        /\ ret.pin.orientation = ((arg.rotation % 360) + 180) % 360

(* --------------------- the Y axis of emitted geometry ------------------ *)

MaxY == 3

SourceY == (-MaxY)..MaxY

\* Converter::flip_y
flip_y(y) == -y

\* Converter::px_to_mil, (10.0 * px) as i32
px_to_mil(px) == 10 * px

SymbolKinds == {"pin", "rectangle", "circle", "polyline"}

FootprintKinds == {"pad", "line", "fp_circle"}

\* kinds with a second Y: the height of a rectangle, the second point of a
\* polyline or of a track
TwoValued == {"rectangle", "polyline", "line"}

\* one primitive of the decoded EeSymbol or EeFootprint
GeometryItems ==
    { [kind |-> k, y |-> y, y2 |-> y2] :
        k \in SymbolKinds \cup FootprintKinds, y \in SourceY, y2 \in SourceY }

\* the Y values of the source primitive, in the order they are emitted
SourceYs(item) ==
    CASE item.kind = "rectangle" -> <<item.y, item.y + item.y2>>
      [] item.kind \in {"polyline", "line"} -> <<item.y, item.y2>>
      [] item.kind = "fp_circle" -> <<item.y, item.y>>
      [] OTHER -> <<item.y>>

\* convert_ee_symbol_to_ki: the Y values of the KiPin, KiRectangle,
\* KiCircle or KiPolyline, still in px
convert_ee_symbol_to_ki_y(item) ==
    CASE item.kind = "pin" -> <<flip_y(item.y)>>
      [] item.kind = "rectangle" -> <<flip_y(item.y), flip_y(item.y + item.y2)>>
      [] item.kind = "circle" -> <<flip_y(item.y)>>
      [] item.kind = "polyline" -> <<flip_y(item.y), flip_y(item.y2)>>

\* convert_ee_footprint_to_ki: pos_y of the KiPad, start_y and end_y of the
\* KiLine, center_y and end_y of the circle
convert_ee_footprint_to_ki_y(item) ==
    CASE item.kind = "pad" -> <<px_to_mm(flip_y(item.y))>>
      [] item.kind = "line" -> <<px_to_mm(flip_y(item.y)), px_to_mm(flip_y(item.y2))>>
      [] item.kind = "fp_circle" ->
           LET center_y == px_to_mm(flip_y(item.y)) IN <<center_y, center_y>>

IsSymbolKind(kind) == kind \in SymbolKinds

\* SymbolExporter::format_*_v6 / format_*_v5 and FootprintExporter::format_pad,
\* format_line, format_circle: the Y values written
FormatYs(kind, ys, v5) ==
    [i \in 1..Len(ys) |->
        IF IsSymbolKind(kind) /\ v5 THEN px_to_mil(ys[i]) ELSE px_to_mm(ys[i])]

InitGeometry ==
    /\ NoBatch
    /\ \E item \in GeometryItems, v5 \in BOOLEAN :
          /\ item.kind \notin TwoValued => item.y2 = 0
          /\ arg = [fn |-> "geometry", item |-> item, kicad_v5 |-> v5]
    /\ ret = NoCall

\* convert_symbol / convert_footprint: EasyEDA primitive to KiCad primitive
ConvertGeometry ==
    /\ arg.fn = "geometry"
    /\ ret = NoCall
    /\ ret' = [fn |-> "convert",
               ys |-> IF IsSymbolKind(arg.item.kind)
                      THEN convert_ee_symbol_to_ki_y(arg.item)
                      ELSE convert_ee_footprint_to_ki_y(arg.item)]
    /\ PadFrame

\* SymbolExporter::export / FootprintExporter::export
FormatGeometry ==
    /\ arg.fn = "geometry"
    /\ ret # NoCall
    /\ ret.fn = "convert"
    /\ ret' = [fn |-> "export", ys |-> FormatYs(arg.item.kind, ret.ys, arg.kicad_v5)]
    /\ PadFrame

NextGeometry == ConvertGeometry \/ FormatGeometry

SpecGeometry == InitGeometry /\ [][NextGeometry]_vars

Sign(n) == IF n > 0 THEN 1 ELSE IF n < 0 THEN -1 ELSE 0

\* C27: every emitted Y of a symbol pin, rectangle, circle or polyline has
\* the opposite sign of its source Y, and every emitted Y of a footprint
\* pad, line or circle has the sign of its source Y.
C27_YNegatedForSymbolsOnly ==
    ( arg.fn = "geometry" /\ ret # NoCall /\ ret.fn = "export" ) =>
        LET source == SourceYs(arg.item)
        IN /\ Len(ret.ys) = Len(source)
           /\ \A i \in 1..Len(source) :
                 Sign(ret.ys[i]) = IF IsSymbolKind(arg.item.kind)
                                   THEN -Sign(source[i])
                                   ELSE Sign(source[i])

(* ---------------------- the decoders, record by record ----------------- *)

\* FootprintImporter::parse_track
parse_track(fields) ==
    IF Len(fields) < 5 THEN [ok |-> FALSE]
    ELSE IF Field(fields, 1) \notin NumberTexts \/ Field(fields, 2) \notin {"0", "1"}
    THEN [ok |-> FALSE]
    ELSE [ok |-> TRUE, stroke_width |-> Field(fields, 1), points |-> Field(fields, 4)]

\* FootprintImporter::parse_circle
footprint_parse_circle(fields) ==
    IF Len(fields) < 5 THEN [ok |-> FALSE]
    ELSE IF \E i \in {1, 2, 3} : Field(fields, i) \notin NumberTexts THEN [ok |-> FALSE]
    ELSE [ok |-> TRUE, cx |-> Field(fields, 1), cy |-> Field(fields, 2)]

\* records of a symbol: shapes that parse, shapes that fail (too short, a
\* field that is no number, a path with a number that is none), a shape of
\* an unknown designator, and a PT shape whose path holds a character that
\* is not ASCII; the path of a PT record is kept as its bytes
SymbolRecords ==
    { FillRecord("R", 11, "1"),
      FillRecord("R", 11, "none"),
      FillRecord("R", 3, ""),
      FillRecord("C", 8, "1"),
      <<"C", "x", "1", "1">>,
      <<"PT", <<"M", "1", ",", "2", "L", "3", " ", "4", "Z">> >>,
      <<"PT", <<"M", "3", " ", "4">> >>,
      <<"PT", <<"L", "-", ",", "1">> >>,
      <<"PT", NonAsciiChar \o <<"Z">> >>,
      <<"PT">>,
      <<"X", "1">> }

FootprintRecords ==
    { <<"TRACK", "1", "1", "", "0 0 1 1">>,
      <<"TRACK", "2.5", "1", "", "1 1 0 0">>,
      <<"TRACK", "wide", "1", "", "0 0 1 1">>,
      <<"TRACK", "1">>,
      <<"CIRCLE", "0", "1", "1", "1">>,
      <<"CIRCLE", "1", "0", "1", "1">>,
      <<"CIRCLE", "0", "0", "r", "1">>,
      <<"VIA2", "1">> }

MaxRecords == 3

\* the decoded model with nothing in it
EmptyModel(importer) ==
    IF importer = "symbol"
    THEN [rectangles |-> <<>>, circles |-> <<>>, polygons |-> <<>>]
    ELSE [tracks |-> <<>>, circles |-> <<>>]

\* the list a record is pushed to, by importer and designator
ListOf(importer, designator) ==
    IF importer = "symbol"
    THEN CASE designator = "R" -> "rectangles"
           [] designator = "C" -> "circles"
           [] designator = "PT" -> "polygons"
           [] OTHER -> "none"
    ELSE CASE designator = "TRACK" -> "tracks"
           [] designator = "CIRCLE" -> "circles"
           [] OTHER -> "none"

\* Self::parse_*(&fields) of the arm the designator selects
ParseRecord(importer, fields) ==
    LET designator == Field(fields, 0)
    IN IF importer = "symbol"
       THEN CASE designator = "R" -> parse_rectangle(fields)
              [] designator = "C" -> parse_circle(fields)
              [] designator = "PT" ->
                   IF Len(fields) < 2 THEN [ok |-> FALSE, panic |-> FALSE]
                   ELSE parse_pt_path(Field(fields, 1))
              [] OTHER -> [ok |-> FALSE]
       ELSE CASE designator = "TRACK" -> parse_track(fields)
              [] designator = "CIRCLE" -> footprint_parse_circle(fields)
              [] OTHER -> [ok |-> FALSE]

\* the call of the sub-parser did not return
Panicked_In(parsed) == "panic" \in DOMAIN parsed /\ parsed.panic

Panics(importer, fields) == Panicked_In(ParseRecord(importer, fields))

\* if let Ok(x) = Self::parse_*(..) { list.push(x) }
PushParsed(st, list, parsed) ==
    IF list = "none" THEN st
    ELSE IF Panicked_In(parsed) THEN [st EXCEPT !.result = "panic"]
    ELSE IF parsed.ok THEN [st EXCEPT !.model[list] = Append(@, parsed)]
    ELSE st

\* one pass of "for shape in ..": match designator { .. }
DecodeStep(importer, st, fields) ==
    PushParsed(st, ListOf(importer, Field(fields, 0)), ParseRecord(importer, fields))

InitDecode ==
    /\ NoBatch
    /\ \/ \E records \in SeqsUpTo(SymbolRecords, MaxRecords) :
             arg = [fn |-> "parse", importer |-> "symbol", records |-> records]
       \/ \E records \in SeqsUpTo(FootprintRecords, MaxRecords) :
             arg = [fn |-> "parse", importer |-> "footprint", records |-> records]
    /\ ret = NoCall

\* let mut symbol = EeSymbol { .. } / let mut footprint = EeFootprint { .. }
DecodeEnter ==
    /\ arg.fn = "parse"
    /\ ret = NoCall
    /\ ret' = [fn |-> "parse", next |-> 1, model |-> EmptyModel(arg.importer),
               result |-> "running"]
    /\ PadFrame

\* for shape in data_str { match designator { .. } }
DecodeRecord ==
    /\ arg.fn = "parse"
    /\ ret # NoCall /\ ret.result = "running"
    /\ ret.next <= Len(arg.records)
    /\ ret' = [DecodeStep(arg.importer, ret, arg.records[ret.next])
                 EXCEPT !.next = ret.next + 1]
    /\ PadFrame

\* Ok(symbol) / Ok(footprint)
DecodeReturn ==
    /\ arg.fn = "parse"
    /\ ret # NoCall /\ ret.result = "running"
    /\ ret.next > Len(arg.records)
    /\ ret' = [ret EXCEPT !.result = "Ok"]
    /\ PadFrame

NextDecode == DecodeEnter \/ DecodeRecord \/ DecodeReturn

SpecDecode == InitDecode /\ [][NextDecode]_vars

\* a record of a known designator that its sub-parser does not return Ok for
FailsToParse(importer, fields) ==
    /\ ListOf(importer, Field(fields, 0)) # "none"
    /\ (Panics(importer, fields) \/ ~ParseRecord(importer, fields).ok)

\* the whole loop over a list of records none of which fails
RECURSIVE DecodeAll(_, _, _)
DecodeAll(importer, model, records) ==
    IF records = <<>> THEN model
    ELSE DecodeAll(importer,
                   DecodeStep(importer, [model |-> model, result |-> "running"],
                              Head(records)).model,
                   Tail(records))

\* the parsed values of the records of one list that parse, in source order
RECURSIVE ParsedOf(_, _, _)
ParsedOf(importer, list, records) ==
    IF records = <<>> THEN <<>>
    ELSE LET fields == Head(records)
             rest == ParsedOf(importer, list, Tail(records))
         IN IF ListOf(importer, Field(fields, 0)) = list /\ ~FailsToParse(importer, fields)
            THEN <<ParseRecord(importer, fields)>> \o rest
            ELSE rest

\* C23: SymbolImporter::parse and FootprintImporter::parse return Ok for
\* every list of records; a record that fails to parse is dropped and the
\* others are not affected: the decoded model is the model decoded from the
\* list without the failing records, and the surviving primitives of each
\* kind stand in source order.
C23_DecoderDropsFailingRecords ==
    ( arg.fn = "parse" /\ ret # NoCall /\ ret.result # "running" ) =>
        LET surviving == SelectSeq(arg.records,
                                   LAMBDA fields : ~FailsToParse(arg.importer, fields))
        IN /\ ret.result = "Ok"
           /\ ret.model = DecodeAll(arg.importer, EmptyModel(arg.importer), surviving)
           /\ \A list \in DOMAIN ret.model :
                 ret.model[list] = ParsedOf(arg.importer, list, arg.records)

====
